---- MODULE Spec2Model ----
(***************************************************************************)
(* Oxford Matplotlib Theme: the colour registry, the palette and preset    *)
(* catalogs and the theme applicator that rewrites matplotlib's global     *)
(* rcParams.                                                               *)
(*                                                                         *)
(* Python strings are tuples of one-character strings, so that str.lower   *)
(* and str.startswith are computed; dictionary keys, parameter names and   *)
(* style names are TLA+ strings.  Floats are exact fractions               *)
(* <<numerator, denominator>>.                                             *)
(* Mutable Python objects (lists, dicts) live in heaps keyed by identity,  *)
(* so that two names for one object are distinguishable from two copies.   *)
(***************************************************************************)
EXTENDS Integers, Sequences, FiniteSets, TLC

VARIABLES
  rc,        \* matplotlib.pyplot.rcParams: parameter name -> value
  pre,       \* rcParams as they were when the last theme call started
  snap,      \* rcParams as they were before the first theme call made
             \* since import or since the last reset_theme
  last,      \* the last theme call: operation, arguments, raised error
  ret,       \* <<value>> returned by the last theme call, <<>> if none
  nfigs,     \* number of figures created by plt.subplots
  listHeap,  \* Python list objects: identity -> contents
  dictHeap,  \* Python dict objects (preset configs): identity -> fields
  journalHeap, \* Python dict objects (journal presets): identity -> fields
  ref,       \* identity of the object the caller received last
  clast,     \* the last catalog call: operation, arguments, raised error
  figHeap,   \* Figure objects: identity -> fig.texts, oldest first
  saved,     \* the calls made to Figure.savefig, oldest first
  elast,     \* the last branding or export call: arguments, raised error
  frames,    \* each thread's get_oxford_rcparams call: position and locals
  lock,      \* the callers' global lock: its holder, "free", or "unused"
             \* when the callers do not synchronise
  race       \* whether an update was lost, a transient theme observed

vars ==
  <<rc, pre, snap, last, ret, nfigs, listHeap, dictHeap, journalHeap, ref, clast,
    figHeap, saved, elast, frames, lock, race>>

themeVars == <<rc, pre, snap, last, ret, nfigs>>
catalogVars == <<listHeap, dictHeap, journalHeap, ref, clast>>
exportVars == <<figHeap, saved, elast>>
threadVars == <<frames, lock, race>>

----------------------------------------------------------------------------
(* Strings *)

LowerChar(c) ==
  CASE c = "A" -> "a"
    [] c = "B" -> "b"
    [] c = "C" -> "c"
    [] c = "D" -> "d"
    [] c = "E" -> "e"
    [] c = "F" -> "f"
    [] c = "G" -> "g"
    [] c = "H" -> "h"
    [] c = "I" -> "i"
    [] c = "J" -> "j"
    [] c = "K" -> "k"
    [] c = "L" -> "l"
    [] c = "M" -> "m"
    [] c = "N" -> "n"
    [] c = "O" -> "o"
    [] c = "P" -> "p"
    [] c = "Q" -> "q"
    [] c = "R" -> "r"
    [] c = "S" -> "s"
    [] c = "T" -> "t"
    [] c = "U" -> "u"
    [] c = "V" -> "v"
    [] c = "W" -> "w"
    [] c = "X" -> "x"
    [] c = "Y" -> "y"
    [] c = "Z" -> "z"
    [] OTHER -> c

\* str.lower() of a tuple of characters, as a key string
RECURSIVE lower(_)
lower(s) == IF s = <<>> THEN "" ELSE LowerChar(Head(s)) \o lower(Tail(s))

\* str.startswith('#')
StartsWithHash(s) == s # <<>> /\ Head(s) = "#"

HexDigits ==
  { "0", "1", "2", "3", "4", "5", "6", "7", "8", "9",
    "a", "b", "c", "d", "e", "f", "A", "B", "C", "D", "E", "F" }

\* what rcParams' colour validator accepts of a '#'-prefixed string
IsHexColor(s) ==
  /\ StartsWithHash(s)
  /\ Len(s) - 1 \in {3, 4, 6, 8}
  /\ \A i \in 2..Len(s) : s[i] \in HexDigits

\* the characters of the catalog keys and of the names tried, in code point
\* order
CodePoints ==
  << "0", "1", "2", "3", "4", "5", "6", "7", "8", "9",
     "A", "B", "C", "D", "E", "F", "G", "H", "I", "J", "K", "L", "M",
     "N", "O", "P", "Q", "R", "S", "T", "U", "V", "W", "X", "Y", "Z",
     "_",
     "a", "b", "c", "d", "e", "f", "g", "h", "i", "j", "k", "l", "m",
     "n", "o", "p", "q", "r", "s", "t", "u", "v", "w", "x", "y", "z" >>

ord(c) == CHOOSE i \in 1..Len(CodePoints) : CodePoints[i] = c

\* a < b for two Python strings
RECURSIVE StrLess(_, _)
StrLess(a, b) ==
  IF b = <<>> THEN FALSE
  ELSE IF a = <<>> THEN TRUE
  ELSE IF Head(a) = Head(b) THEN StrLess(Tail(a), Tail(b))
  ELSE ord(Head(a)) < ord(Head(b))

\* sorted(names) for names that are all different, as dict keys are: the
\* k-th is the one with k - 1 names below it
sorted(names) ==
  LET below == [i \in 1..Len(names) |->
                 Cardinality({j \in 1..Len(names) : StrLess(names[j], names[i])})]
  IN  [k \in 1..Len(names) |->
        names[CHOOSE i \in 1..Len(names) : below[i] = k - 1]]

\* str.lower() as a string of the same kind
LowerCase(s) == [i \in 1..Len(s) |-> LowerChar(s[i])]

UpperLetters == {CodePoints[i] : i \in 11..36}

\* str.upper()
UpperChar(c) ==
  IF \E u \in UpperLetters : LowerChar(u) = c
    THEN CHOOSE u \in UpperLetters : LowerChar(u) = c
    ELSE c

UpperCase(s) == [i \in 1..Len(s) |-> UpperChar(s[i])]

----------------------------------------------------------------------------
(* Colour registry and palettes (colors.py) *)

\* name -> colour value (the values of class OxfordColors)
OXFORD_COLORS ==
  [ oxford_blue |-> <<"#","0","0","2","1","4","7">>,
    oxford_phc |-> <<"#","8","A","1","7","5","1">>,
    mauve |-> <<"#","7","7","6","8","8","5">>,
    peach |-> <<"#","E","0","8","D","7","9">>,
    potters_pink |-> <<"#","E","D","9","3","9","0">>,
    dusk |-> <<"#","C","4","A","2","9","E">>,
    lilac |-> <<"#","D","1","B","D","D","5">>,
    sienna |-> <<"#","9","9","4","6","3","6">>,
    red |-> <<"#","B","E","0","F","3","4">>,
    plum |-> <<"#","7","F","0","5","5","F">>,
    coral |-> <<"#","F","E","6","1","5","A">>,
    lavender |-> <<"#","D","4","C","D","F","4">>,
    orange |-> <<"#","F","B","5","6","0","7">>,
    pink |-> <<"#","E","6","0","0","7","E">>,
    green |-> <<"#","4","2","6","A","5","A">>,
    ocean_grey |-> <<"#","7","8","9","E","9","E">>,
    yellow_ochre |-> <<"#","E","2","C","0","4","4">>,
    cool_grey |-> <<"#","E","4","F","0","E","F">>,
    sky_blue |-> <<"#","B","9","D","6","F","2">>,
    sage_green |-> <<"#","A","0","A","F","8","4">>,
    viridian |-> <<"#","1","5","6","1","6","D">>,
    royal_blue |-> <<"#","1","D","4","2","A","6">>,
    aqua |-> <<"#","0","0","A","A","B","4">>,
    vivid_green |-> <<"#","6","5","E","5","A","E">>,
    lime_green |-> <<"#","9","5","C","1","1","F">>,
    cerulean_blue |-> <<"#","4","9","B","6","F","F">>,
    lemon_yellow |-> <<"#","F","7","E","F","6","6">>,
    charcoal |-> <<"#","2","1","1","D","1","C">>,
    ash_grey |-> <<"#","6","1","6","1","5","F">>,
    umber |-> <<"#","8","9","8","2","7","A">>,
    stone_grey |-> <<"#","D","9","D","8","D","6">>,
    shell_grey |-> <<"#","F","1","E","E","E","9">>,
    off_white |-> <<"#","F","2","F","0","F","0">>,
    gold |-> <<"#","F","F","D","7","0","0">>,
    silver |-> <<"#","C","0","C","0","C","0">>,
    white |-> <<"#","F","F","F","F","F","F">>,
    black |-> <<"#","0","0","0","0","0","0">>,
    thesis_purple_1 |-> <<"#","5","F","4","D","7","8">>,
    bright_blue |-> <<"#","5","4","A","B","E","7">>,
    thesis_purple_2 |-> <<"#","8","A","5","C","9","B">>,
    slate_blue_1 |-> <<"#","5","7","7","7","9","D">>,
    slate_blue_2 |-> <<"#","5","7","7","8","9","E">>,
    periwinkle |-> <<"#","7","7","9","E","C","D">>,
    iris |-> <<"#","6","D","6","0","B","0">>,
    deep_teal |-> <<"#","1","4","6","1","6","E">>,
    golden_yellow |-> <<"#","D","F","B","F","4","5">>,
    dusty_mauve |-> <<"#","7","8","6","A","8","3">>,
    wisteria |-> <<"#","9","3","9","1","C","8">>,
    powder_blue |-> <<"#","C","9","E","E","F","E">>,
    grey_blue |-> <<"#","9","F","A","7","C","3">>,
    amethyst |-> <<"#","7","E","7","9","B","C">>,
    navy_blue |-> <<"#","0","6","2","6","4","B">>,
    soft_purple |-> <<"#","A","5","8","5","B","2">>,
    pale_grey |-> <<"#","E","4","E","7","E","D">>,
    heather |-> <<"#","C","5","C","0","D","F">>,
    cornflower |-> <<"#","7","5","9","E","C","C">> ]

\* OXFORD_COLORS.keys(), in the order the dict is written
OXFORD_COLORS_keys ==
  << <<"o","x","f","o","r","d","_","b","l","u","e">>,
     <<"o","x","f","o","r","d","_","p","h","c">>, <<"m","a","u","v","e">>,
     <<"p","e","a","c","h">>,
     <<"p","o","t","t","e","r","s","_","p","i","n","k">>,
     <<"d","u","s","k">>, <<"l","i","l","a","c">>,
     <<"s","i","e","n","n","a">>, <<"r","e","d">>, <<"p","l","u","m">>,
     <<"c","o","r","a","l">>, <<"l","a","v","e","n","d","e","r">>,
     <<"o","r","a","n","g","e">>, <<"p","i","n","k">>,
     <<"g","r","e","e","n">>, <<"o","c","e","a","n","_","g","r","e","y">>,
     <<"y","e","l","l","o","w","_","o","c","h","r","e">>,
     <<"c","o","o","l","_","g","r","e","y">>,
     <<"s","k","y","_","b","l","u","e">>,
     <<"s","a","g","e","_","g","r","e","e","n">>,
     <<"v","i","r","i","d","i","a","n">>,
     <<"r","o","y","a","l","_","b","l","u","e">>, <<"a","q","u","a">>,
     <<"v","i","v","i","d","_","g","r","e","e","n">>,
     <<"l","i","m","e","_","g","r","e","e","n">>,
     <<"c","e","r","u","l","e","a","n","_","b","l","u","e">>,
     <<"l","e","m","o","n","_","y","e","l","l","o","w">>,
     <<"c","h","a","r","c","o","a","l">>,
     <<"a","s","h","_","g","r","e","y">>, <<"u","m","b","e","r">>,
     <<"s","t","o","n","e","_","g","r","e","y">>,
     <<"s","h","e","l","l","_","g","r","e","y">>,
     <<"o","f","f","_","w","h","i","t","e">>, <<"g","o","l","d">>,
     <<"s","i","l","v","e","r">>, <<"w","h","i","t","e">>,
     <<"b","l","a","c","k">>,
     <<"t","h","e","s","i","s","_","p","u","r","p","l","e","_","1">>,
     <<"b","r","i","g","h","t","_","b","l","u","e">>,
     <<"t","h","e","s","i","s","_","p","u","r","p","l","e","_","2">>,
     <<"s","l","a","t","e","_","b","l","u","e","_","1">>,
     <<"s","l","a","t","e","_","b","l","u","e","_","2">>,
     <<"p","e","r","i","w","i","n","k","l","e">>, <<"i","r","i","s">>,
     <<"d","e","e","p","_","t","e","a","l">>,
     <<"g","o","l","d","e","n","_","y","e","l","l","o","w">>,
     <<"d","u","s","t","y","_","m","a","u","v","e">>,
     <<"w","i","s","t","e","r","i","a">>,
     <<"p","o","w","d","e","r","_","b","l","u","e">>,
     <<"g","r","e","y","_","b","l","u","e">>,
     <<"a","m","e","t","h","y","s","t">>,
     <<"n","a","v","y","_","b","l","u","e">>,
     <<"s","o","f","t","_","p","u","r","p","l","e">>,
     <<"p","a","l","e","_","g","r","e","y">>,
     <<"h","e","a","t","h","e","r">>,
     <<"c","o","r","n","f","l","o","w","e","r">> >>

\* mutant: a digit is missing from the third colour
OXFORD_PALETTE_short_hex ==
  << <<"#","0","0","2","1","4","7">>,
     <<"#","1","D","4","2","A","6">>,
     <<"#","0","0","A","A","B">>,
     <<"#","F","E","6","1","5","A">>,
     <<"#","6","5","E","5","A","E">>,
     <<"#","F","B","5","6","0","7">>,
     <<"#","7","7","6","8","8","5">>,
     <<"#","4","9","B","6","F","F">> >>

\* the default 8-colour cycle
OXFORD_PALETTE ==
  << <<"#","0","0","2","1","4","7">>,
     <<"#","1","D","4","2","A","6">>,
     <<"#","0","0","A","A","B","4">>,
     <<"#","F","E","6","1","5","A">>,
     <<"#","6","5","E","5","A","E">>,
     <<"#","F","B","5","6","0","7">>,
     <<"#","7","7","6","8","8","5">>,
     <<"#","4","9","B","6","F","F">> >>

\* class ColorPalettes, keyed as get_palette keys it
ColorPalettes ==
  [ primary |->
      << <<"#","0","0","2","1","4","7">>,
         <<"#","F","E","6","1","5","A">>,
         <<"#","0","0","A","A","B","4">>,
         <<"#","E","2","C","0","4","4">>,
         <<"#","7","F","0","5","5","F">>,
         <<"#","A","0","A","F","8","4">>,
         <<"#","F","B","5","6","0","7">>,
         <<"#","B","9","D","6","F","2">>,
         <<"#","E","6","0","0","7","E">>,
         <<"#","1","5","6","1","6","D">> >>,
    professional |->
      << <<"#","0","0","2","1","4","7">>,
         <<"#","6","1","6","1","5","F">>,
         <<"#","4","2","6","A","5","A">>,
         <<"#","9","9","4","6","3","6">>,
         <<"#","1","D","4","2","A","6">>,
         <<"#","8","9","8","2","7","A">> >>,
    vibrant |->
      << <<"#","F","E","6","1","5","A">>,
         <<"#","0","0","A","A","B","4">>,
         <<"#","F","B","5","6","0","7">>,
         <<"#","E","6","0","0","7","E">>,
         <<"#","6","5","E","5","A","E">>,
         <<"#","4","9","B","6","F","F">>,
         <<"#","F","7","E","F","6","6">> >>,
    pastel |->
      << <<"#","B","9","D","6","F","2">>,
         <<"#","E","0","8","D","7","9">>,
         <<"#","D","1","B","D","D","5">>,
         <<"#","A","0","A","F","8","4">>,
         <<"#","E","D","9","3","9","0">>,
         <<"#","D","4","C","D","F","4">>,
         <<"#","E","4","F","0","E","F">> >>,
    diverging |->
      << <<"#","F","E","6","1","5","A">>,
         <<"#","E","0","8","D","7","9">>,
         <<"#","D","9","D","8","D","6">>,
         <<"#","B","9","D","6","F","2">>,
         <<"#","0","0","2","1","4","7">> >>,
    sequential_blue |->
      << <<"#","B","9","D","6","F","2">>,
         <<"#","4","9","B","6","F","F">>,
         <<"#","1","D","4","2","A","6">>,
         <<"#","0","0","2","1","4","7">>,
         <<"#","2","1","1","D","1","C">> >>,
    health |->
      << <<"#","8","A","1","7","5","1">>,
         <<"#","7","F","0","5","5","F">>,
         <<"#","F","E","6","1","5","A">>,
         <<"#","0","0","A","A","B","4">>,
         <<"#","A","0","A","F","8","4">> >>,
    traditional |->
      << <<"#","0","0","2","1","4","7">>,
         <<"#","B","E","0","F","3","4">>,
         <<"#","4","2","6","A","5","A">>,
         <<"#","F","F","D","7","0","0">>,
         <<"#","2","1","1","D","1","C">>,
         <<"#","D","9","D","8","D","6">> >>,
    contemporary |->
      << <<"#","7","7","6","8","8","5">>,
         <<"#","E","0","8","D","7","9">>,
         <<"#","C","4","A","2","9","E">>,
         <<"#","7","8","9","E","9","E">>,
         <<"#","9","9","4","6","3","6">>,
         <<"#","E","4","F","0","E","F">> >>,
    celebratory |->
      << <<"#","E","6","0","0","7","E">>,
         <<"#","F","B","5","6","0","7">>,
         <<"#","F","E","6","1","5","A">>,
         <<"#","E","2","C","0","4","4">>,
         <<"#","6","5","E","5","A","E">>,
         <<"#","B","9","D","6","F","2">> >>,
    corporate |->
      << <<"#","0","0","2","1","4","7">>,
         <<"#","1","D","4","2","A","6">>,
         <<"#","2","1","1","D","1","C">>,
         <<"#","6","1","6","1","5","F">>,
         <<"#","D","9","D","8","D","6">>,
         <<"#","F","2","F","0","F","0">> >>,
    innovative |->
      << <<"#","0","0","A","A","B","4">>,
         <<"#","6","5","E","5","A","E">>,
         <<"#","4","9","B","6","F","F">>,
         <<"#","9","5","C","1","1","F">>,
         <<"#","1","5","6","1","6","D">>,
         <<"#","B","9","D","6","F","2">> >>,
    phc_thesis |->
      << <<"#","0","0","2","1","4","7">>,
         <<"#","8","A","1","7","5","1">>,
         <<"#","0","6","2","6","4","B">>,
         <<"#","1","4","6","1","6","E">>,
         <<"#","5","7","7","7","9","D">>,
         <<"#","5","7","7","8","9","E">>,
         <<"#","5","4","A","B","E","7">>,
         <<"#","7","7","9","E","C","D">>,
         <<"#","7","5","9","E","C","C">>,
         <<"#","C","9","E","E","F","E">>,
         <<"#","5","F","4","D","7","8">>,
         <<"#","8","A","5","C","9","B">>,
         <<"#","6","D","6","0","B","0">>,
         <<"#","7","E","7","9","B","C">>,
         <<"#","9","3","9","1","C","8">>,
         <<"#","A","5","8","5","B","2">>,
         <<"#","D","1","B","D","D","5">>,
         <<"#","D","4","C","D","F","4">>,
         <<"#","C","5","C","0","D","F">>,
         <<"#","7","F","0","5","5","F">>,
         <<"#","7","8","6","A","8","3">>,
         <<"#","9","F","A","7","C","3">>,
         <<"#","6","1","6","1","5","F">>,
         <<"#","E","4","E","7","E","D">>,
         <<"#","D","F","B","F","4","5">>,
         <<"#","F","F","F","F","F","F">>,
         <<"#","0","0","0","0","0","0">> >> ]

----------------------------------------------------------------------------
(* rcParams values *)

RECURSIVE GCD(_, _)
GCD(a, b) == IF b = 0 THEN a ELSE GCD(b, a % b)

\* one shape for every value: a str, a bool, a list of str or a number
Str(s)    == [kind |-> "str",  n |-> 0, d |-> 1, s |-> s, l |-> <<>>]
Bool(b)   == [kind |-> "bool", n |-> IF b THEN 1 ELSE 0, d |-> 1, s |-> <<>>, l |-> <<>>]
List(l)   == [kind |-> "list", n |-> 0, d |-> 1, s |-> <<>>, l |-> l]
Num(n, d) ==
  LET g == GCD(n, d)
  IN  [kind |-> "num", n |-> n \div g, d |-> d \div g, s |-> <<>>, l |-> <<>>]

\* isinstance(value, (int, float))
IsNumeric(v) == v.kind = "num"

\* current_value * font_scale
Times(v, fs) == Num(v.n * fs[1], v.d * fs[2])

\* Optional[...] arguments
None    == [some |-> FALSE, v |-> <<>>]
Some(x) == [some |-> TRUE,  v |-> x]

font_params ==
  << "font.size", "axes.labelsize", "axes.titlesize", "xtick.labelsize",
     "ytick.labelsize", "legend.fontsize", "figure.titlesize" >>

FontParams == { font_params[i] : i \in 1..Len(font_params) }

\* the parameters the theme, a base style or the caller can touch
Params ==
  { "axes.prop_cycle", "axes.labelcolor", "axes.edgecolor", "text.color",
    "xtick.color", "ytick.color", "font.family", "font.sans-serif",
    "legend.frameon", "legend.framealpha", "legend.edgecolor",
    "legend.fancybox", "figure.facecolor", "axes.facecolor",
    "axes.grid", "lines.linewidth" } \cup FontParams

\* plt.rcParamsDefault: the snapshot matplotlib takes when it is imported
rcParamsDefault ==
  [p \in Params |->
    CASE p = "axes.prop_cycle" ->
           List(<< <<"#","1","f","7","7","b","4">>,
      <<"#","f","f","7","f","0","e">>,
      <<"#","2","c","a","0","2","c">>,
      <<"#","d","6","2","7","2","8">>,
      <<"#","9","4","6","7","b","d">>,
      <<"#","8","c","5","6","4","b">>,
      <<"#","e","3","7","7","c","2">>,
      <<"#","7","f","7","f","7","f">>,
      <<"#","b","c","b","d","2","2">>,
      <<"#","1","7","b","e","c","f">> >>)
      [] p \in { "axes.labelcolor", "axes.edgecolor", "text.color",
                 "xtick.color", "ytick.color" } -> Str(<<"b","l","a","c","k">>)
      [] p = "font.family" -> List(<< <<"s","a","n","s","-","s","e","r","i","f">> >>)
      [] p = "font.sans-serif" ->
           List(<< <<"D","e","j","a","V","u"," ","S","a","n","s">>,
      <<"B","i","t","s","t","r","e","a","m"," ","V","e","r","a"," ","S","a","n","s">>,
      <<"A","r","i","a","l">>,
      <<"H","e","l","v","e","t","i","c","a">>,
      <<"s","a","n","s","-","s","e","r","i","f">> >>)
      [] p = "legend.frameon" -> Bool(TRUE)
      [] p = "legend.framealpha" -> Num(4, 5)
      [] p = "legend.edgecolor" -> Str(<<"0",".","8">>)
      [] p = "legend.fancybox" -> Bool(TRUE)
      [] p \in { "figure.facecolor", "axes.facecolor" } -> Str(<<"w","h","i","t","e">>)
      [] p = "axes.grid" -> Bool(FALSE)
      [] p = "lines.linewidth" -> Num(3, 2)
      [] p = "font.size" -> Num(10, 1)
      [] p \in { "axes.labelsize", "xtick.labelsize", "ytick.labelsize",
                 "legend.fontsize" } -> Str(<<"m","e","d","i","u","m">>)
      [] p \in { "axes.titlesize", "figure.titlesize" } -> Str(<<"l","a","r","g","e">>) ]

\* the style sheets the package names; each sets only some parameters
StyleLibrary ==
  [ paper |->
      [ axes_labelsize |-> Num(44, 5), axes_titlesize |-> Num(48, 5),
        tick_labelsize |-> Num(8, 1), legend_fontsize |-> Num(8, 1),
        lines_linewidth |-> Num(7, 5) ],
    notebook |->
      [ axes_labelsize |-> Num(11, 1), axes_titlesize |-> Num(12, 1),
        tick_labelsize |-> Num(10, 1), legend_fontsize |-> Num(10, 1),
        lines_linewidth |-> Num(7, 4) ] ]

ContextSheet(c) ==
  ( "axes.labelsize" :> c.axes_labelsize ) @@
  ( "axes.titlesize" :> c.axes_titlesize ) @@
  ( "xtick.labelsize" :> c.tick_labelsize ) @@
  ( "ytick.labelsize" :> c.tick_labelsize ) @@
  ( "legend.fontsize" :> c.legend_fontsize ) @@
  ( "lines.linewidth" :> c.lines_linewidth )

WhitegridSheet ==
  ( "text.color" :> Str(<<".","1","5">>) ) @@
  ( "axes.labelcolor" :> Str(<<".","1","5">>) ) @@
  ( "xtick.color" :> Str(<<".","1","5">>) ) @@
  ( "ytick.color" :> Str(<<".","1","5">>) ) @@
  ( "legend.frameon" :> Bool(FALSE) ) @@
  ( "font.family" :> List(<< <<"s","a","n","s","-","s","e","r","i","f">> >>) ) @@
  ( "font.sans-serif" :>
      List(<< <<"A","r","i","a","l">>,
      <<"L","i","b","e","r","a","t","i","o","n"," ","S","a","n","s">>,
      <<"D","e","j","a","V","u"," ","S","a","n","s">>,
      <<"B","i","t","s","t","r","e","a","m"," ","V","e","r","a"," ","S","a","n","s">>,
      <<"s","a","n","s","-","s","e","r","i","f">> >>) ) @@
  ( "axes.grid" :> Bool(TRUE) ) @@
  ( "axes.facecolor" :> Str(<<"w","h","i","t","e">>) ) @@
  ( "axes.edgecolor" :> Str(<<".","8">>) )

StyleSheets ==
  ( "seaborn-v0_8-paper" :> ContextSheet(StyleLibrary.paper) ) @@
  ( "seaborn-v0_8-notebook" :> ContextSheet(StyleLibrary.notebook) ) @@
  ( "seaborn-v0_8-whitegrid" :> WhitegridSheet )

\* plt.style.use(style_base): the sheet's parameters overwrite the current
\* ones, every other parameter keeps its value (no reset to defaults)
StyleUse(r, style) ==
  [p \in Params |->
    IF p \in DOMAIN StyleSheets[style] THEN StyleSheets[style][p] ELSE r[p]]

----------------------------------------------------------------------------
(* Theme applicator (styles.py) *)

\* an outcome: the exception raised ("" when none) and the value produced
Raise(e)  == [err |-> e, v |-> <<>>]
Return(x) == [err |-> "", v |-> x]

\* mutant: the name is looked up as it is spelt
get_color_case_sensitive(name) ==
  IF name # LowerCase(name) \/ lower(name) \notin DOMAIN OXFORD_COLORS
    THEN Raise("ValueError")
    ELSE Return(OXFORD_COLORS[lower(name)])

\* ', '.join(sorted(OXFORD_COLORS.keys())) in get_color's error message
get_color_available == sorted(OXFORD_COLORS_keys)

get_color(name) ==
  IF lower(name) \notin DOMAIN OXFORD_COLORS
    THEN Raise("ValueError")
    ELSE Return(OXFORD_COLORS[lower(name)])

\* one pass of the pre-validation loop: literals pass, names are looked up
ResolveEntry(color) ==
  IF StartsWithHash(color) THEN Return(color) ELSE get_color(color)

\* mutant: the resolved colours collected in reverse order
RECURSIVE ResolveCycle_reversed(_)
ResolveCycle_reversed(cycle) ==
  IF cycle = <<>> THEN Return(<<>>)
  ELSE LET first == ResolveEntry(Head(cycle))
           rest  == ResolveCycle_reversed(Tail(cycle))
       IN  IF first.err # "" THEN Raise(first.err)
           ELSE IF rest.err # "" THEN Raise(rest.err)
           ELSE Return(rest.v \o <<first.v>>)

\* colors = [...] built entry by entry; the first bad name raises
RECURSIVE ResolveCycle(_)
ResolveCycle(cycle) ==
  IF cycle = <<>> THEN Return(<<>>)
  ELSE LET first == ResolveEntry(Head(cycle))
           rest  == ResolveCycle(Tail(cycle))
       IN  IF first.err # "" THEN Raise(first.err)
           ELSE IF rest.err # "" THEN Raise(rest.err)
           ELSE Return(<<first.v>> \o rest.v)

\* colors: the resolved color_cycle, or OXFORD_PALETTE when it is None
ThemeColors(color_cycle) ==
  IF color_cycle.some THEN ResolveCycle(color_cycle.v)
  ELSE Return(OXFORD_PALETTE)

\* the fixed entries of oxford_rc
oxford_rc(colors) ==
  ( "axes.prop_cycle" :> List(colors) ) @@
  ( "axes.labelcolor" :> Str(OXFORD_COLORS.oxford_blue) ) @@
  ( "axes.edgecolor" :> Str(OXFORD_COLORS.oxford_blue) ) @@
  ( "text.color" :> Str(OXFORD_COLORS.oxford_blue) ) @@
  ( "xtick.color" :> Str(OXFORD_COLORS.oxford_blue) ) @@
  ( "ytick.color" :> Str(OXFORD_COLORS.oxford_blue) ) @@
  ( "font.family" :> List(<< <<"s","a","n","s","-","s","e","r","i","f">> >>) ) @@
  ( "font.sans-serif" :>
      List(<< <<"A","r","i","a","l">>,
              <<"H","e","l","v","e","t","i","c","a">>,
              <<"D","e","j","a","V","u"," ","S","a","n","s">>,
              <<"s","a","n","s","-","s","e","r","i","f">> >>) ) @@
  ( "legend.frameon" :> Bool(TRUE) ) @@
  ( "legend.framealpha" :> Num(1, 1) ) @@
  ( "legend.edgecolor" :> Str(OXFORD_COLORS.oxford_blue) ) @@
  ( "legend.fancybox" :> Bool(FALSE) ) @@
  ( "figure.facecolor" :> Str(<<"w","h","i","t","e">>) ) @@
  ( "axes.facecolor" :> Str(<<"w","h","i","t","e">>) )

\* mutant: only font.size is scaled
FontScaling_font_size_only(current, font_scale) ==
  LET scaled == IF font_scale[1] # font_scale[2]
                  THEN { p \in {"font.size"} : IsNumeric(current[p]) }
                  ELSE {}
  IN  [p \in scaled |-> Times(current[p], font_scale)]

\* the font-size entries added to oxford_rc, read from the rcParams in
\* force after the base style was applied
FontScaling(current, font_scale) ==
  LET scaled == IF font_scale[1] # font_scale[2]
                  THEN { p \in FontParams : IsNumeric(current[p]) }
                  ELSE {}
  IN  [p \in scaled |-> Times(current[p], font_scale)]

\* the colour validation rcParams applies to axes.prop_cycle
ValidCycle(colors) ==
  \A i \in 1..Len(colors) :
    StartsWithHash(colors[i]) => IsHexColor(colors[i])

\* plt.rcParams.update(entries): key by key in insertion order, the first
\* key being axes.prop_cycle when it is present; a rejected value raises
\* before any later key is written
RcUpdate(current, entries) ==
  IF "axes.prop_cycle" \in DOMAIN entries
       /\ ~ValidCycle(entries["axes.prop_cycle"].l)
    THEN [err |-> "ValueError", v |-> current]
    ELSE [err |-> "",
          v |-> [p \in Params |->
                   IF p \in DOMAIN entries THEN entries[p] ELSE current[p]]]

\* mutant: the base style is applied before the arguments are checked
apply_oxford_theme_style_first(current, style_base, color_cycle, font_scale) ==
  LET colors == ThemeColors(color_cycle)
      styled == StyleUse(current, style_base)
  IN  IF style_base \notin DOMAIN StyleSheets
        THEN [err |-> "OSError", v |-> current]
      ELSE IF font_scale[1] <= 0 THEN [err |-> "ValueError", v |-> styled]
      ELSE IF color_cycle.some /\ Len(color_cycle.v) = 0
        THEN [err |-> "ValueError", v |-> styled]
      ELSE IF colors.err # "" THEN [err |-> colors.err, v |-> styled]
      ELSE RcUpdate(styled, FontScaling(styled, font_scale) @@ oxford_rc(colors.v))

\* mutant: the base style is applied after the Oxford parameters
apply_oxford_theme_style_last(current, style_base, color_cycle, font_scale) ==
  LET colors == ThemeColors(color_cycle)
      themed == RcUpdate(current,
                         FontScaling(current, font_scale) @@ oxford_rc(colors.v))
  IN  IF font_scale[1] <= 0 THEN [err |-> "ValueError", v |-> current]
      ELSE IF color_cycle.some /\ Len(color_cycle.v) = 0
        THEN [err |-> "ValueError", v |-> current]
      ELSE IF colors.err # "" THEN [err |-> colors.err, v |-> current]
      ELSE IF style_base \notin DOMAIN StyleSheets
        THEN [err |-> "OSError", v |-> current]
      ELSE IF themed.err # "" THEN themed
      ELSE [err |-> "", v |-> StyleUse(themed.v, style_base)]

\* apply_oxford_theme: the exception raised and the rcParams it leaves
apply_oxford_theme(current, style_base, color_cycle, font_scale) ==
  LET colors == ThemeColors(color_cycle)
      styled == StyleUse(current, style_base)
  IN  IF font_scale[1] <= 0 THEN [err |-> "ValueError", v |-> current]
      ELSE IF color_cycle.some /\ Len(color_cycle.v) = 0
        THEN [err |-> "ValueError", v |-> current]
      ELSE IF colors.err # "" THEN [err |-> colors.err, v |-> current]
      ELSE IF style_base \notin DOMAIN StyleSheets
        THEN [err |-> "OSError", v |-> current]
      ELSE RcUpdate(styled, FontScaling(styled, font_scale) @@ oxford_rc(colors.v))

\* mutant: only the parameters oxford_rc names are put back
reset_theme_oxford_keys_only(current) ==
  [p \in Params |->
    IF p \in DOMAIN oxford_rc(<<>>) THEN rcParamsDefault[p] ELSE current[p]]

\* mutant: the font sizes are left as the theme scaled them
reset_theme_keeps_font_sizes(current) ==
  [p \in Params |-> IF p \in FontParams THEN current[p] ELSE rcParamsDefault[p]]

\* reset_theme: rcParams.update(rcParamsDefault)
reset_theme(current) == RcUpdate(current, rcParamsDefault).v

\* mutant: the restore goes back to the library defaults
get_oxford_rcparams_restore_defaults(current, style_base, color_cycle, font_scale) ==
  LET applied == apply_oxford_theme(current, style_base, color_cycle, font_scale)
  IN  IF applied.err # "" THEN [err |-> applied.err, v |-> <<>>, rc |-> applied.v]
      ELSE [err |-> "", v |-> <<applied.v>>, rc |-> reset_theme(applied.v)]

\* mutant: the configuration is captured after the restore
get_oxford_rcparams_capture_after_restore(current, style_base, color_cycle, font_scale) ==
  LET applied == apply_oxford_theme(current, style_base, color_cycle, font_scale)
      restored == RcUpdate(applied.v, current).v
  IN  IF applied.err # "" THEN [err |-> applied.err, v |-> <<>>, rc |-> applied.v]
      ELSE [err |-> "", v |-> <<restored>>, rc |-> restored]

\* get_oxford_rcparams: snapshot, apply, capture, restore; an exception
\* from apply_oxford_theme leaves before the capture and the restore
get_oxford_rcparams(current, style_base, color_cycle, font_scale) ==
  LET original_params == current
      applied == apply_oxford_theme(current, style_base, color_cycle, font_scale)
      oxford_params == applied.v
  IN  IF applied.err # "" THEN [err |-> applied.err, v |-> <<>>, rc |-> applied.v]
      ELSE [err |-> "", v |-> <<oxford_params>>,
            rc |-> RcUpdate(oxford_params, original_params).v]

\* mutant: the theme is applied before the figsize check
oxford_figure_theme_first(current, figsize, style_base, color_cycle, font_scale) ==
  LET applied == apply_oxford_theme(current, style_base, color_cycle, font_scale)
  IN  IF applied.err # "" THEN [err |-> applied.err, v |-> <<>>, rc |-> applied.v]
      ELSE IF figsize[1][1] <= 0 \/ figsize[2][1] <= 0
        THEN [err |-> "ValueError", v |-> <<>>, rc |-> applied.v]
      ELSE [err |-> "", v |-> <<figsize>>, rc |-> applied.v]

\* oxford_figure up to plt.subplots: the figsize check, then the theme
oxford_figure(current, figsize, style_base, color_cycle, font_scale) ==
  IF figsize[1][1] <= 0 \/ figsize[2][1] <= 0
    THEN [err |-> "ValueError", v |-> <<>>, rc |-> current]
    ELSE LET applied == apply_oxford_theme(current, style_base, color_cycle, font_scale)
         IN  IF applied.err # "" THEN [err |-> applied.err, v |-> <<>>, rc |-> applied.v]
             ELSE [err |-> "", v |-> <<figsize>>, rc |-> applied.v]

----------------------------------------------------------------------------
(* Preset catalog (presets.py) *)

\* Python's None where a reference to an object may stand
NoneRef == "None"

\* PRESETS: preset key -> identity of its config dict
PRESETS ==
  [ default |-> "PRESETS.default", presentation |-> "PRESETS.presentation",
    print |-> "PRESETS.print", colorblind |-> "PRESETS.colorblind",
    minimal |-> "PRESETS.minimal", notebook |-> "PRESETS.notebook",
    poster |-> "PRESETS.poster" ]

\* PRESETS.keys(), in the order the dict is written
PRESETS_keys ==
  << <<"d","e","f","a","u","l","t">>,
     <<"p","r","e","s","e","n","t","a","t","i","o","n">>,
     <<"p","r","i","n","t">>,
     <<"c","o","l","o","r","b","l","i","n","d">>,
     <<"m","i","n","i","m","a","l">>,
     <<"n","o","t","e","b","o","o","k">>,
     <<"p","o","s","t","e","r">> >>

\* ', '.join(sorted(PRESETS.keys())) in the error message of apply_preset
\* and of get_preset_config
PRESETS_available == sorted(PRESETS_keys)

\* the config dicts as the module creates them
PresetDicts ==
  ( "PRESETS.default" :>
      [ description |-> "Standard Oxford theme for academic papers",
        style_base |-> "seaborn-v0_8-paper", color_cycle |-> NoneRef,
        font_scale |-> <<1, 1>> ] ) @@
  ( "PRESETS.presentation" :>
      [ description |-> "Larger fonts and elements for slides",
        style_base |-> "seaborn-v0_8-paper", color_cycle |-> NoneRef,
        font_scale |-> <<14, 10>> ] ) @@
  ( "PRESETS.print" :>
      [ description |-> "High contrast for printed materials",
        style_base |-> "seaborn-v0_8-paper",
        color_cycle |-> "PRESETS.print.color_cycle",
        font_scale |-> <<1, 1>> ] ) @@
  ( "PRESETS.colorblind" :>
      [ description |-> "Colorblind-friendly palette",
        style_base |-> "seaborn-v0_8-paper",
        color_cycle |-> "PRESETS.colorblind.color_cycle",
        font_scale |-> <<1, 1>> ] ) @@
  ( "PRESETS.minimal" :>
      [ description |-> "Minimal styling with grid",
        style_base |-> "seaborn-v0_8-whitegrid",
        color_cycle |-> "PRESETS.minimal.color_cycle",
        font_scale |-> <<1, 1>> ] ) @@
  ( "PRESETS.notebook" :>
      [ description |-> "Optimized for Jupyter notebooks",
        style_base |-> "seaborn-v0_8-notebook", color_cycle |-> NoneRef,
        font_scale |-> <<11, 10>> ] ) @@
  ( "PRESETS.poster" :>
      [ description |-> "Extra large fonts for conference posters",
        style_base |-> "seaborn-v0_8-paper", color_cycle |-> NoneRef,
        font_scale |-> <<18, 10>> ] )

\* mutant: the colorblind cycle names a colour the registry does not have
PresetLists_unknown_colour ==
  ( "PRESETS.print.color_cycle" :>
      << <<"o","x","f","o","r","d","_","b","l","u","e">>,
         <<"c","o","r","a","l">>, <<"a","q","u","a">>,
         <<"o","r","a","n","g","e">>,
         <<"v","i","v","i","d","_","g","r","e","e","n">> >> ) @@
  ( "PRESETS.colorblind.color_cycle" :>
      << <<"o","x","f","o","r","d","_","b","l","u","e">>,
         <<"o","r","a","n","g","e">>, <<"t","e","a","l">>,
         <<"m","a","u","v","e">>,
         <<"v","i","v","i","d","_","g","r","e","e","n">> >> ) @@
  ( "PRESETS.minimal.color_cycle" :>
      << <<"o","x","f","o","r","d","_","b","l","u","e">>,
         <<"r","o","y","a","l","_","b","l","u","e">>, <<"a","q","u","a">>,
         <<"c","e","r","u","l","e","a","n","_","b","l","u","e">> >> )

\* the color_cycle lists of the presets that have one
PresetLists ==
  ( "PRESETS.print.color_cycle" :>
      << <<"o","x","f","o","r","d","_","b","l","u","e">>,
         <<"c","o","r","a","l">>, <<"a","q","u","a">>,
         <<"o","r","a","n","g","e">>,
         <<"v","i","v","i","d","_","g","r","e","e","n">> >> ) @@
  ( "PRESETS.colorblind.color_cycle" :>
      << <<"o","x","f","o","r","d","_","b","l","u","e">>,
         <<"o","r","a","n","g","e">>, <<"a","q","u","a">>,
         <<"m","a","u","v","e">>,
         <<"v","i","v","i","d","_","g","r","e","e","n">> >> ) @@
  ( "PRESETS.minimal.color_cycle" :>
      << <<"o","x","f","o","r","d","_","b","l","u","e">>,
         <<"r","o","y","a","l","_","b","l","u","e">>, <<"a","q","u","a">>,
         <<"c","e","r","u","l","e","a","n","_","b","l","u","e">> >> )

\* the color_cycle argument a config dict gives: None or its list's contents
CycleOf(lists, config) ==
  IF config.color_cycle = NoneRef THEN None ELSE Some(lists[config.color_cycle])

\* mutant: the preset's color_cycle is not passed on
apply_preset_default_cycle(current, lists, dicts, preset_name) ==
  LET preset_name_lower == lower(preset_name)
      config == dicts[PRESETS[preset_name_lower]]
  IN  IF preset_name_lower \notin DOMAIN PRESETS
        THEN [err |-> "ValueError", v |-> current]
        ELSE apply_oxford_theme(current, config.style_base, None,
                                config.font_scale)

\* mutant: the preset's font_scale is not passed on
apply_preset_unit_scale(current, lists, dicts, preset_name) ==
  LET preset_name_lower == lower(preset_name)
      config == dicts[PRESETS[preset_name_lower]]
  IN  IF preset_name_lower \notin DOMAIN PRESETS
        THEN [err |-> "ValueError", v |-> current]
        ELSE apply_oxford_theme(current, config.style_base,
                                CycleOf(lists, config), <<1, 1>>)

\* apply_preset against the catalog objects as they are now
apply_preset(current, lists, dicts, preset_name) ==
  LET preset_name_lower == lower(preset_name)
      config == dicts[PRESETS[preset_name_lower]]
  IN  IF preset_name_lower \notin DOMAIN PRESETS
        THEN [err |-> "ValueError", v |-> current]
        ELSE apply_oxford_theme(current, config.style_base,
                                CycleOf(lists, config), config.font_scale)

\* get_preset_config against the catalog objects as they are now: the
\* outcome, the identity of the dict returned and the dict heap afterwards;
\* dict.copy() makes a new dict whose values are the same objects
get_preset_config(dicts, preset_name) ==
  LET preset_name_lower == lower(preset_name)
  IN  IF preset_name_lower \notin DOMAIN PRESETS
        THEN [err |-> "ValueError", ref |-> NoneRef, dicts |-> dicts]
        ELSE [err |-> "", ref |-> "caller.dict",
              dicts |-> [id \in DOMAIN dicts \cup {"caller.dict"} |->
                          IF id = "caller.dict"
                            THEN dicts[PRESETS[preset_name_lower]]
                            ELSE dicts[id]]]

----------------------------------------------------------------------------
(* Palette catalog (colors.py) *)

\* the palettes dict get_palette builds: key -> identity of the class's list
palettes ==
  [ primary |-> "ColorPalettes.PRIMARY",
    professional |-> "ColorPalettes.PROFESSIONAL",
    vibrant |-> "ColorPalettes.VIBRANT",
    pastel |-> "ColorPalettes.PASTEL",
    diverging |-> "ColorPalettes.DIVERGING",
    sequential_blue |-> "ColorPalettes.SEQUENTIAL_BLUE",
    health |-> "ColorPalettes.HEALTH",
    traditional |-> "ColorPalettes.TRADITIONAL",
    contemporary |-> "ColorPalettes.CONTEMPORARY",
    celebratory |-> "ColorPalettes.CELEBRATORY",
    corporate |-> "ColorPalettes.CORPORATE",
    innovative |-> "ColorPalettes.INNOVATIVE",
    phc_thesis |-> "ColorPalettes.PHC_THESIS" ]

\* the list objects class ColorPalettes holds
\* palettes.keys(), in the order the dict is written
palettes_keys ==
  << <<"p","r","i","m","a","r","y">>,
     <<"p","r","o","f","e","s","s","i","o","n","a","l">>,
     <<"v","i","b","r","a","n","t">>,
     <<"p","a","s","t","e","l">>,
     <<"d","i","v","e","r","g","i","n","g">>,
     <<"s","e","q","u","e","n","t","i","a","l","_","b","l","u","e">>,
     <<"h","e","a","l","t","h">>,
     <<"t","r","a","d","i","t","i","o","n","a","l">>,
     <<"c","o","n","t","e","m","p","o","r","a","r","y">>,
     <<"c","e","l","e","b","r","a","t","o","r","y">>,
     <<"c","o","r","p","o","r","a","t","e">>,
     <<"i","n","n","o","v","a","t","i","v","e">>,
     <<"p","h","c","_","t","h","e","s","i","s">> >>

\* ', '.join(sorted(palettes.keys())) in get_palette's error message
palettes_available == sorted(palettes_keys)

PaletteLists ==
  [id \in { palettes[k] : k \in DOMAIN palettes } |->
    ColorPalettes[CHOOSE k \in DOMAIN palettes : palettes[k] = id]]

Min(a, b) == IF a < b THEN a ELSE b
Max(a, b) == IF a > b THEN a ELSE b

\* seq[:n] as Python slices: a negative n counts from the end
SlicePrefix(seq, n) ==
  IF n >= 0 THEN SubSeq(seq, 1, Min(n, Len(seq)))
  ELSE SubSeq(seq, 1, Max(Len(seq) + n, 0))

\* [palette[i % len(palette)] for i in range(n_colors)]
Cycled(palette, n_colors) ==
  [i \in 1..n_colors |-> palette[((i - 1) % Len(palette)) + 1]]

\* a new list object handed to the caller
NewList(lists, contents) ==
  [ err |-> "", ref |-> "caller.list",
    lists |-> [id \in DOMAIN lists \cup {"caller.list"} |->
                IF id = "caller.list" THEN contents ELSE lists[id]] ]

\* mutant: the palette list itself is returned when n_colors is None
get_palette_no_copy(lists, palette_name, n_colors) ==
  LET palette_key == lower(palette_name)
      palette == lists[palettes[palette_key]]
  IN  IF palette_key \notin DOMAIN palettes
        THEN [err |-> "ValueError", ref |-> NoneRef, lists |-> lists]
      ELSE IF ~n_colors.some
        THEN [err |-> "", ref |-> palettes[palette_key], lists |-> lists]
      ELSE IF n_colors.v > Len(palette)
        THEN NewList(lists, Cycled(palette, n_colors.v))
      ELSE NewList(lists, SlicePrefix(palette, n_colors.v))

\* mutant: no cycling, a long request is cut at the palette's length
get_palette_no_cycling(lists, palette_name, n_colors) ==
  LET palette_key == lower(palette_name)
      palette == lists[palettes[palette_key]]
  IN  IF palette_key \notin DOMAIN palettes
        THEN [err |-> "ValueError", ref |-> NoneRef, lists |-> lists]
      ELSE IF ~n_colors.some THEN NewList(lists, palette)
      ELSE NewList(lists, SlicePrefix(palette, n_colors.v))

\* get_palette against the list objects as they are now: the outcome, the
\* identity of the list returned and the list heap afterwards
get_palette(lists, palette_name, n_colors) ==
  LET palette_key == lower(palette_name)
      palette == lists[palettes[palette_key]]
  IN  IF palette_key \notin DOMAIN palettes
        THEN [err |-> "ValueError", ref |-> NoneRef, lists |-> lists]
      ELSE IF ~n_colors.some THEN NewList(lists, palette)
      ELSE IF n_colors.v > Len(palette)
        THEN NewList(lists, Cycled(palette, n_colors.v))
      ELSE NewList(lists, SlicePrefix(palette, n_colors.v))

\* mutant: the count is not passed on
get_color_palette_whole(lists, palette_name, n_colors) ==
  get_palette(lists, palette_name, [some |-> FALSE, v |-> 0])

\* get_color_palette: return get_palette(palette_name, n_colors)
get_color_palette(lists, palette_name, n_colors) ==
  get_palette(lists, palette_name, n_colors)

----------------------------------------------------------------------------
(* Journal presets (utils.py) *)

PUBLICATION_DPI == 300

\* JOURNAL_PRESETS: journal key -> identity of its preset dict
JOURNAL_PRESETS ==
  [ nature |-> "JOURNAL_PRESETS.nature",
    nature_double |-> "JOURNAL_PRESETS.nature_double",
    plos |-> "JOURNAL_PRESETS.plos", bmj |-> "JOURNAL_PRESETS.bmj",
    lancet |-> "JOURNAL_PRESETS.lancet" ]

\* JOURNAL_PRESETS.keys(), in the order the dict is written
JOURNAL_PRESETS_keys ==
  << <<"n","a","t","u","r","e">>,
     <<"n","a","t","u","r","e","_","d","o","u","b","l","e">>,
     <<"p","l","o","s">>,
     <<"b","m","j">>,
     <<"l","a","n","c","e","t">> >>

\* ', '.join(sorted(JOURNAL_PRESETS.keys())) in the error message
JOURNAL_PRESETS_available == sorted(JOURNAL_PRESETS_keys)

\* the preset dicts as the module creates them; figsize in inches, width
\* and height as fractions
JournalDicts ==
  ( "JOURNAL_PRESETS.nature" :>
      [ figsize |-> << <<7, 2>>, <<5, 2>> >>, dpi |-> PUBLICATION_DPI,
        format |-> <<"s","v","g">> ] ) @@
  ( "JOURNAL_PRESETS.nature_double" :>
      [ figsize |-> << <<7, 1>>, <<5, 1>> >>, dpi |-> PUBLICATION_DPI,
        format |-> <<"s","v","g">> ] ) @@
  ( "JOURNAL_PRESETS.plos" :>
      [ figsize |-> << <<683, 100>>, <<5, 1>> >>, dpi |-> PUBLICATION_DPI,
        format |-> <<"t","i","f","f">> ] ) @@
  ( "JOURNAL_PRESETS.bmj" :>
      [ figsize |-> << <<327, 100>>, <<5, 2>> >>, dpi |-> PUBLICATION_DPI,
        format |-> <<"e","p","s">> ] ) @@
  ( "JOURNAL_PRESETS.lancet" :>
      [ figsize |-> << <<327, 100>>, <<5, 2>> >>, dpi |-> PUBLICATION_DPI,
        format |-> <<"t","i","f","f">> ] )

\* mutant: the journal name is looked up as it is spelt
get_journal_preset_case_sensitive(dicts, journal_name) ==
  LET journal_name_lower == lower(journal_name)
  IN  IF journal_name # LowerCase(journal_name)
           \/ journal_name_lower \notin DOMAIN JOURNAL_PRESETS
        THEN [err |-> "ValueError", ref |-> NoneRef, dicts |-> dicts]
        ELSE [err |-> "", ref |-> "caller.journal",
              dicts |-> [id \in DOMAIN dicts \cup {"caller.journal"} |->
                          IF id = "caller.journal"
                            THEN dicts[JOURNAL_PRESETS[journal_name_lower]]
                            ELSE dicts[id]]]

\* mutant: the catalog's own dict is returned
get_journal_preset_no_copy(dicts, journal_name) ==
  LET journal_name_lower == lower(journal_name)
  IN  IF journal_name_lower \notin DOMAIN JOURNAL_PRESETS
        THEN [err |-> "ValueError", ref |-> NoneRef, dicts |-> dicts]
        ELSE [err |-> "", ref |-> JOURNAL_PRESETS[journal_name_lower],
              dicts |-> dicts]

\* get_journal_preset against the preset dicts as they are now: the outcome,
\* the identity of the dict returned and the dict heap afterwards
get_journal_preset(dicts, journal_name) ==
  LET journal_name_lower == lower(journal_name)
  IN  IF journal_name_lower \notin DOMAIN JOURNAL_PRESETS
        THEN [err |-> "ValueError", ref |-> NoneRef, dicts |-> dicts]
        ELSE [err |-> "", ref |-> "caller.journal",
              dicts |-> [id \in DOMAIN dicts \cup {"caller.journal"} |->
                          IF id = "caller.journal"
                            THEN dicts[JOURNAL_PRESETS[journal_name_lower]]
                            ELSE dicts[id]]]

----------------------------------------------------------------------------
(* Branding and export (utils.py) *)

\* a <= b for two fractions with positive denominators
Leq(a, b) == a[1] * b[2] <= b[1] * a[2]

\* the corner a watermark goes to, in figure coordinates
positions ==
  [ bottom_right |-> [x |-> <<49, 50>>, y |-> <<1, 50>>,
                      ha |-> "right", va |-> "bottom"],
    bottom_left  |-> [x |-> <<1, 50>>,  y |-> <<1, 50>>,
                      ha |-> "left",  va |-> "bottom"],
    top_right    |-> [x |-> <<49, 50>>, y |-> <<49, 50>>,
                      ha |-> "right", va |-> "top"],
    top_left     |-> [x |-> <<1, 50>>,  y |-> <<49, 50>>,
                      ha |-> "left",  va |-> "top"] ]

\* positions.keys(), in the order the dict is written
positions_keys == <<"bottom_right", "bottom_left", "top_right", "top_left">>

\* the Text object fig.text puts on the figure
Watermark(watermark_text, position, opacity, fontsize) ==
  LET pos == positions[position]
  IN  [ x |-> pos.x, y |-> pos.y, s |-> watermark_text, fontsize |-> fontsize,
        color |-> OXFORD_COLORS["stone_grey"], alpha |-> opacity,
        ha |-> pos.ha, va |-> pos.va ]

\* mutant: a watermark the figure already carries is not added again
add_oxford_branding_deduplicating(figs, fig, add_watermark, watermark_text, position, opacity, fontsize) ==
  IF ~add_watermark
    THEN [err |-> "", msg |-> <<>>, ret |-> fig, figs |-> figs]
  ELSE IF ~(Leq(<<0, 1>>, opacity) /\ Leq(opacity, <<1, 1>>))
    THEN [err |-> "ValueError", msg |-> <<>>, ret |-> NoneRef, figs |-> figs]
  ELSE IF position \notin DOMAIN positions
    THEN [err |-> "ValueError", msg |-> positions_keys, ret |-> NoneRef,
          figs |-> figs]
  ELSE LET mark == Watermark(watermark_text, position, opacity, fontsize)
       IN  [err |-> "", msg |-> <<>>, ret |-> fig,
            figs |-> IF \E i \in 1..Len(figs[fig]) : figs[fig][i] = mark
                       THEN figs
                       ELSE [figs EXCEPT ![fig] = Append(@, mark)]]

\* mutant: a position that is not recognised falls back to the default one
add_oxford_branding_default_position(figs, fig, add_watermark, watermark_text, position, opacity, fontsize) ==
  IF ~add_watermark
    THEN [err |-> "", msg |-> <<>>, ret |-> fig, figs |-> figs]
  ELSE IF ~(Leq(<<0, 1>>, opacity) /\ Leq(opacity, <<1, 1>>))
    THEN [err |-> "ValueError", msg |-> <<>>, ret |-> NoneRef, figs |-> figs]
  ELSE LET known == IF position \in DOMAIN positions THEN position
                    ELSE "bottom_right"
       IN  [err |-> "", msg |-> <<>>, ret |-> fig,
            figs |-> [figs EXCEPT ![fig] =
                        Append(@, Watermark(watermark_text, known, opacity,
                                            fontsize))]]

\* add_oxford_branding against the figures as they are now: the outcome, the
\* names the error message lists, the identity of the figure returned and
\* the figures afterwards
add_oxford_branding(figs, fig, add_watermark, watermark_text, position, opacity, fontsize) ==
  IF ~add_watermark
    THEN [err |-> "", msg |-> <<>>, ret |-> fig, figs |-> figs]
  ELSE IF ~(Leq(<<0, 1>>, opacity) /\ Leq(opacity, <<1, 1>>))
    THEN [err |-> "ValueError", msg |-> <<>>, ret |-> NoneRef, figs |-> figs]
  ELSE IF position \notin DOMAIN positions
    THEN [err |-> "ValueError", msg |-> positions_keys, ret |-> NoneRef,
          figs |-> figs]
  ELSE [err |-> "", msg |-> <<>>, ret |-> fig,
        figs |-> [figs EXCEPT ![fig] =
                    Append(@, Watermark(watermark_text, position, opacity,
                                        fontsize))]]

\* SUPPORTED_FORMATS, one after the other
SUPPORTED_FORMATS_elements ==
  << <<"p","n","g">>, <<"s","v","g">>, <<"p","d","f">>, <<"e","p","s">>,
     <<"t","i","f","f">>, <<"j","p","g">>, <<"j","p","e","g">>, <<"p","s">>,
     <<"r","a","w">>, <<"r","g","b","a">>, <<"p","g","f">> >>

\* mutant: only the raster formats are supported
SUPPORTED_FORMATS_raster_only ==
  { <<"p","n","g">>, <<"t","i","f","f">>, <<"j","p","g">>,
    <<"j","p","e","g">>, <<"r","a","w">>, <<"r","g","b","a">> }

SUPPORTED_FORMATS ==
  { <<"p","n","g">>, <<"s","v","g">>, <<"p","d","f">>, <<"e","p","s">>,
    <<"t","i","f","f">>, <<"j","p","g">>, <<"j","p","e","g">>, <<"p","s">>,
    <<"r","a","w">>, <<"r","g","b","a">>, <<"p","g","f">> }

\* ', '.join(sorted(SUPPORTED_FORMATS))
SUPPORTED_FORMATS_sorted == sorted(SUPPORTED_FORMATS_elements)

\* s.endswith(suffix)
endswith(s, suffix) ==
  /\ Len(suffix) <= Len(s)
  /\ SubSeq(s, Len(s) - Len(suffix) + 1, Len(s)) = suffix

\* mutant: the extension is looked for as it is spelt
save_filename_case_sensitive(filename, format) ==
  IF ~endswith(filename, <<".">> \o format)
    THEN filename \o <<".">> \o format
    ELSE filename

\* the name save_oxford_figure hands to savefig
save_filename(filename, format) ==
  IF ~endswith(LowerCase(filename), <<".">> \o LowerCase(format))
    THEN filename \o <<".">> \o format
    ELSE filename

\* mutant: the figure is saved before the arguments are looked at
save_oxford_figure_saves_first(calls, fig, filename, format, dpi, bbox_inches) ==
  LET written == Append(calls, [ fig |-> fig,
                                 fname |-> save_filename(filename, format),
                                 format |-> format, dpi |-> dpi,
                                 bbox_inches |-> bbox_inches ])
  IN  IF dpi <= 0
        THEN [err |-> "ValueError", msg |-> <<>>, calls |-> written]
      ELSE IF LowerCase(format) \notin SUPPORTED_FORMATS
        THEN [err |-> "ValueError", msg |-> SUPPORTED_FORMATS_sorted,
              calls |-> written]
      ELSE [err |-> "", msg |-> <<>>, calls |-> written]

\* save_oxford_figure against the calls made to savefig so far: the outcome,
\* the formats the error message lists and the calls made afterwards
save_oxford_figure(calls, fig, filename, format, dpi, bbox_inches) ==
  IF dpi <= 0
    THEN [err |-> "ValueError", msg |-> <<>>, calls |-> calls]
  ELSE IF LowerCase(format) \notin SUPPORTED_FORMATS
    THEN [err |-> "ValueError", msg |-> SUPPORTED_FORMATS_sorted,
          calls |-> calls]
  ELSE [err |-> "", msg |-> <<>>,
        calls |-> Append(calls, [ fig |-> fig,
                                  fname |-> save_filename(filename, format),
                                  format |-> format, dpi |-> dpi,
                                  bbox_inches |-> bbox_inches ])]

----------------------------------------------------------------------------
(* Bounds and inputs *)

\* theme calls made since rcParams were last at the library defaults
MaxDepth == 2
\* figures plt.subplots may create
MaxFigs == 1
\* largest n_colors asked of get_palette
MaxCount == 28
\* in-place changes the caller makes to objects it was handed
MaxEdits == 1
\* watermarks put on the figures, all figures together
MaxTexts == 2
\* calls of save_oxford_figure that reach savefig
MaxFiles == 2

BaseStyles ==
  { "seaborn-v0_8-paper", "seaborn-v0_8-notebook", "seaborn-v0_8-whitegrid" }

\* names in any case and '#' literals that rcParams accepts
GoodCycles ==
  { None,
    Some(<< <<"C","o","r","a","l">>, <<"a","q","u","a">>,
            <<"#","F","F","0","0","0","0">> >>),
    Some(<< <<"#","0","0","f","f","0","0">>,
            <<"O","X","F","O","R","D","_","B","L","U","E">> >>) }

EmptyCycle == Some(<<>>)
\* 'teal' is no registry name
UnknownNameCycle == Some(<< <<"a","q","u","a">>, <<"t","e","a","l">> >>)
\* '#GGGGGG' is no colour
BadLiteralCycle ==
  Some(<< <<"c","o","r","a","l">>, <<"#","G","G","G","G","G","G">> >>)

\* <<style_base, color_cycle, font_scale>> that pass every check
GoodThemeArgs == BaseStyles \X GoodCycles \X { <<1, 1>>, <<3, 2>> }

\* one argument wrong at a time
BadThemeArgs ==
  { <<"seaborn-v0_8-paper", None, <<0, 1>> >>,
    <<"seaborn-v0_8-whitegrid", BadLiteralCycle, <<-1, 2>> >>,
    <<"seaborn-v0_8-whitegrid", EmptyCycle, <<1, 1>> >>,
    <<"seaborn-v0_8-paper", UnknownNameCycle, <<3, 2>> >>,
    <<"seaborn-v0_8-whitegrid", BadLiteralCycle, <<3, 2>> >>,
    <<"seaborn-v0_8-paper", BadLiteralCycle, <<1, 1>> >>,
    <<"no-such-style", None, <<2, 1>> >> }

ThemeArgs == GoodThemeArgs \cup BadThemeArgs

FigureArgs ==
  { <<"seaborn-v0_8-paper", None, <<1, 1>> >>,
    <<"seaborn-v0_8-notebook", None, <<2, 1>> >>,
    <<"seaborn-v0_8-whitegrid", BadLiteralCycle, <<1, 1>> >>,
    <<"seaborn-v0_8-paper", EmptyCycle, <<1, 1>> >> }

\* (width, height) in inches, each a fraction
FigSizes ==
  { << <<10, 1>>, <<6, 1>> >>, << <<0, 1>>, <<6, 1>> >>,
    << <<7, 1>>, <<-5, 1>> >> }

PresetNames ==
  { <<"d","e","f","a","u","l","t">>,
    <<"p","r","e","s","e","n","t","a","t","i","o","n">>,
    <<"P","r","i","n","t">>,
    <<"c","o","l","o","r","b","l","i","n","d">>,
    <<"M","I","N","I","M","A","L">>,
    <<"n","o","t","e","b","o","o","k">>,
    <<"p","o","s","t","e","r">>,
    <<"n","o","n","e","x","i","s","t","e","n","t">> }

\* rcParams when the package is first called: the library defaults, or the
\* defaults overridden by the user's matplotlibrc
InitialOverrides ==
  { << >>,
    ( "axes.labelcolor" :> Str(<<"r","e","d">>) ) @@
    ( "legend.frameon" :> Bool(FALSE) ) @@
    ( "figure.facecolor" :> Str(<<"0",".","9">>) ) @@
    ( "axes.grid" :> Bool(TRUE) ),
    ( "font.size" :> Num(12, 1) ) @@
    ( "figure.titlesize" :> Num(14, 1) ) @@
    ( "legend.fontsize" :> Str(<<"s","m","a","l","l">>) ) }

InitialConfigs ==
  { [p \in Params |-> IF p \in DOMAIN o THEN o[p] ELSE rcParamsDefault[p]] :
      o \in InitialOverrides }

----------------------------------------------------------------------------
(* The theme calls as steps *)

NoCall ==
  [ op |-> "", style_base |-> "", color_cycle |-> None, font_scale |-> <<1, 1>>,
    figsize |-> << <<0, 1>>, <<0, 1>> >>, preset_name |-> <<>>, err |-> "", depth |-> 0,
    msg |-> <<>> ]

Call(op, style, cycle, scale, err, depth) ==
  [ NoCall EXCEPT !.op = op, !.style_base = style, !.color_cycle = cycle,
                  !.font_scale = scale, !.err = err, !.depth = depth ]

\* the configuration a run of theme calls started from: the one in force
\* when the first call after import or after a reset_theme is made
Snapshot == IF last.op \in {"", "reset_theme"} THEN rc ELSE snap

ApplyTheme(style, cycle, scale) ==
  LET out == apply_oxford_theme(rc, style, cycle, scale)
  IN  /\ last.depth < MaxDepth
      /\ rc' = out.v
      /\ pre' = rc
      /\ snap' = Snapshot
      /\ ret' = <<>>
      /\ last' = Call("apply_oxford_theme", style, cycle, scale, out.err,
                      last.depth + 1)
      /\ UNCHANGED <<nfigs, catalogVars, exportVars, threadVars>>

ResetTheme ==
  /\ rc' = reset_theme(rc)
  /\ pre' = rc
  /\ snap' = Snapshot
  /\ ret' = <<>>
  /\ last' = [NoCall EXCEPT !.op = "reset_theme"]
  /\ UNCHANGED <<nfigs, catalogVars, exportVars, threadVars>>

OxfordFigure(figsize, style, cycle, scale) ==
  LET out == oxford_figure(rc, figsize, style, cycle, scale)
  IN  /\ last.depth < MaxDepth
      /\ nfigs < MaxFigs
      /\ rc' = out.rc
      /\ pre' = rc
      /\ snap' = Snapshot
      /\ ret' = out.v
      /\ nfigs' = IF out.err = "" THEN nfigs + 1 ELSE nfigs
      /\ last' = [ Call("oxford_figure", style, cycle, scale, out.err,
                        last.depth + 1) EXCEPT !.figsize = figsize ]
      /\ UNCHANGED <<catalogVars, exportVars, threadVars>>

GetOxfordRcparams(style, cycle, scale) ==
  LET out == get_oxford_rcparams(rc, style, cycle, scale)
  IN  /\ last.depth < MaxDepth
      /\ rc' = out.rc
      /\ pre' = rc
      /\ snap' = Snapshot
      /\ ret' = out.v
      /\ last' = Call("get_oxford_rcparams", style, cycle, scale, out.err,
                      last.depth + 1)
      /\ UNCHANGED <<nfigs, catalogVars, exportVars, threadVars>>

ApplyPreset(name) ==
  LET out == apply_preset(rc, listHeap, dictHeap, name)
  IN  /\ last.depth < MaxDepth
      /\ rc' = out.v
      /\ pre' = rc
      /\ snap' = Snapshot
      /\ ret' = <<>>
      /\ last' = [ NoCall EXCEPT !.op = "apply_preset", !.preset_name = name,
                                 !.err = out.err, !.depth = last.depth + 1,
                                 !.msg = IF lower(name) \in DOMAIN PRESETS
                                           THEN <<>> ELSE PRESETS_available ]
      /\ UNCHANGED <<nfigs, catalogVars, exportVars, threadVars>>

NoCatalogCall ==
  [ op |-> "", name |-> <<>>, n_colors |-> [some |-> FALSE, v |-> 0],
    err |-> "", edits |-> 0, fresh |-> FALSE, value |-> <<>>, msg |-> <<>> ]

\* the figures the caller holds; a new Figure carries no text
Figures == {"fig1", "fig2"}
NewFigures == [fig \in Figures |-> <<>>]

NoExportCall ==
  [ op |-> "", fig |-> NoneRef, add_watermark |-> FALSE, watermark_text |-> "",
    position |-> "", opacity |-> <<0, 1>>, fontsize |-> 0, filename |-> <<>>,
    format |-> <<>>, dpi |-> 0, err |-> "", msg |-> <<>>, ret |-> NoneRef,
    texts_before |-> NewFigures, saved_before |-> <<>>, added |-> 0 ]

\* the threads that call into the theme applicator
Threads == {"t1", "t2"}

\* a thread that is in no get_oxford_rcparams call: its locals are unbound
NoFrame ==
  [ pc |-> "idle", style_base |-> "", color_cycle |-> None,
    font_scale |-> <<1, 1>>, original_params |-> <<>>,
    oxford_params |-> <<>>, dirty |-> FALSE, update |-> <<>> ]

Init ==
  /\ rc \in InitialConfigs
  /\ pre = rc
  /\ snap = rc
  /\ last = NoCall
  /\ ret = <<>>
  /\ nfigs = 0
  /\ listHeap = PresetLists @@ PaletteLists
  /\ dictHeap = PresetDicts
  /\ journalHeap = JournalDicts
  /\ ref = NoneRef
  /\ clast = NoCatalogCall
  /\ figHeap = NewFigures
  /\ saved = <<>>
  /\ elast = NoExportCall
  /\ frames = [t \in Threads |-> NoFrame]
  /\ lock = "unused"
  /\ race = [lost |-> FALSE, observed |-> FALSE]

Next ==
  \/ \E a \in ThemeArgs : ApplyTheme(a[1], a[2], a[3])
  \/ ResetTheme
  \/ \E figsize \in FigSizes, a \in FigureArgs :
       OxfordFigure(figsize, a[1], a[2], a[3])
  \/ \E a \in ThemeArgs : GetOxfordRcparams(a[1], a[2], a[3])
  \/ \E name \in PresetNames : ApplyPreset(name)

Spec == Init /\ [][Next]_vars

----------------------------------------------------------------------------
(* The catalog calls, and what a caller does with the objects returned *)

PaletteNames ==
  { <<"p","r","i","m","a","r","y">>,
    <<"P","r","o","f","e","s","s","i","o","n","a","l">>,
    <<"v","i","b","r","a","n","t">>,
    <<"p","a","s","t","e","l">>,
    <<"D","I","V","E","R","G","I","N","G">>,
    <<"s","e","q","u","e","n","t","i","a","l","_","b","l","u","e">>,
    <<"h","e","a","l","t","h">>,
    <<"t","r","a","d","i","t","i","o","n","a","l">>,
    <<"c","o","n","t","e","m","p","o","r","a","r","y">>,
    <<"c","e","l","e","b","r","a","t","o","r","y">>,
    <<"c","o","r","p","o","r","a","t","e">>,
    <<"i","n","n","o","v","a","t","i","v","e">>,
    <<"p","h","c","_","t","h","e","s","i","s">>,
    <<"r","a","i","n","b","o","w">> }

\* n_colors=None
NoCount == [some |-> FALSE, v |-> 0]

\* the counts asked of a palette: none, below, at and beyond its length,
\* up to one more than two full turns
CountsFor(name) ==
  LET palette_key == lower(name)
      turns == IF palette_key \in DOMAIN ColorPalettes
                 THEN 2 * Len(ColorPalettes[palette_key]) + 1 ELSE 1
  IN  { NoCount } \cup { Some(n) : n \in -1..Min(MaxCount, turns) }

\* what the caller writes into a list it holds
EditValues == { <<"#","F","F","F","F","F","F">> }

\* the heap once the caller has let go of the object it held: the caller
\* keeps one variable and binds it anew at every call
Release(heap, id) == [x \in DOMAIN heap \ {id} |-> heap[x]]

GetPalette(name, n_colors) ==
  LET out == get_palette(Release(listHeap, "caller.list"), name, n_colors)
  IN  /\ listHeap' = out.lists
      /\ ref' = out.ref
      /\ clast' = [ clast EXCEPT !.op = "get_palette", !.name = name,
                                 !.n_colors = n_colors, !.err = out.err,
                                 !.fresh = TRUE, !.value = <<>>,
                                 !.msg = IF out.err = "" THEN <<>>
                                         ELSE palettes_available ]
      /\ dictHeap' = Release(dictHeap, "caller.dict")
      /\ journalHeap' = Release(journalHeap, "caller.journal")
      /\ UNCHANGED <<themeVars, exportVars, threadVars>>

GetPresetConfig(name) ==
  LET out == get_preset_config(Release(dictHeap, "caller.dict"), name)
  IN  /\ dictHeap' = out.dicts
      /\ ref' = out.ref
      /\ clast' = [ clast EXCEPT !.op = "get_preset_config", !.name = name,
                                 !.n_colors = NoCount, !.err = out.err,
                                 !.fresh = TRUE, !.value = <<>>,
                                 !.msg = IF out.err = "" THEN <<>>
                                         ELSE PRESETS_available ]
      /\ listHeap' = Release(listHeap, "caller.list")
      /\ journalHeap' = Release(journalHeap, "caller.journal")
      /\ UNCHANGED <<themeVars, exportVars, threadVars>>

\* the list the caller can reach: the one returned, or the color_cycle of
\* the config dict returned
HeldList ==
  IF ref \in DOMAIN listHeap THEN ref
  ELSE IF ref \in DOMAIN dictHeap THEN dictHeap[ref].color_cycle
  ELSE NoneRef

Edit(id, contents) ==
  /\ clast.edits < MaxEdits
  /\ listHeap' = [listHeap EXCEPT ![id] = contents]
  /\ clast' = [clast EXCEPT !.edits = @ + 1, !.fresh = FALSE]
  /\ UNCHANGED <<dictHeap, journalHeap, ref, themeVars, exportVars, threadVars>>

\* held.append(x)
ListAppend(x) ==
  /\ HeldList # NoneRef
  /\ Edit(HeldList, Append(listHeap[HeldList], x))

\* held.pop()
ListPop ==
  /\ HeldList # NoneRef
  /\ Len(listHeap[HeldList]) > 0
  /\ Edit(HeldList, SubSeq(listHeap[HeldList], 1, Len(listHeap[HeldList]) - 1))

\* held[0] = x
ListSetItem(x) ==
  /\ HeldList # NoneRef
  /\ Len(listHeap[HeldList]) > 0
  /\ Edit(HeldList, [listHeap[HeldList] EXCEPT ![1] = x])

\* config['font_scale'] = 999.0
DictSetFontScale ==
  /\ ref \in DOMAIN dictHeap
  /\ clast.edits < MaxEdits
  /\ dictHeap' = [dictHeap EXCEPT ![ref].font_scale = <<999, 1>>]
  /\ clast' = [clast EXCEPT !.edits = @ + 1, !.fresh = FALSE]
  /\ UNCHANGED <<listHeap, journalHeap, ref, themeVars, exportVars, threadVars>>

\* config['color_cycle'] = None
DictSetColorCycle ==
  /\ ref \in DOMAIN dictHeap
  /\ clast.edits < MaxEdits
  /\ dictHeap' = [dictHeap EXCEPT ![ref].color_cycle = NoneRef]
  /\ clast' = [clast EXCEPT !.edits = @ + 1, !.fresh = FALSE]
  /\ UNCHANGED <<listHeap, journalHeap, ref, themeVars, exportVars, threadVars>>

GetColorPalette(name, n_colors) ==
  LET out == get_color_palette(Release(listHeap, "caller.list"), name, n_colors)
  IN  /\ listHeap' = out.lists
      /\ ref' = out.ref
      /\ clast' = [ clast EXCEPT !.op = "get_color_palette", !.name = name,
                                 !.n_colors = n_colors, !.err = out.err,
                                 !.fresh = TRUE, !.value = <<>>,
                                 !.msg = IF out.err = "" THEN <<>>
                                         ELSE palettes_available ]
      /\ dictHeap' = Release(dictHeap, "caller.dict")
      /\ journalHeap' = Release(journalHeap, "caller.journal")
      /\ UNCHANGED <<themeVars, exportVars, threadVars>>

JournalNames ==
  { <<"n","a","t","u","r","e">>, <<"N","a","t","u","r","e">>,
    <<"N","A","T","U","R","E","_","D","O","U","B","L","E">>,
    <<"p","l","o","s">>, <<"P","L","O","S">>, <<"B","m","j">>,
    <<"l","a","n","c","e","t">>, <<"e","l","s","e","v","i","e","r">> }

GetJournalPreset(name) ==
  LET out == get_journal_preset(Release(journalHeap, "caller.journal"), name)
  IN  /\ journalHeap' = out.dicts
      /\ ref' = out.ref
      /\ clast' = [ clast EXCEPT !.op = "get_journal_preset", !.name = name,
                                 !.n_colors = NoCount, !.err = out.err,
                                 !.fresh = TRUE, !.value = <<>>,
                                 !.msg = IF out.err = "" THEN <<>>
                                         ELSE JOURNAL_PRESETS_available ]
      /\ listHeap' = Release(listHeap, "caller.list")
      /\ dictHeap' = Release(dictHeap, "caller.dict")
      /\ UNCHANGED <<themeVars, exportVars, threadVars>>

\* every journal key as written and in upper case, and the names above
JournalSpellings ==
  JournalNames \cup
  { JOURNAL_PRESETS_keys[i] : i \in 1..Len(JOURNAL_PRESETS_keys) } \cup
  { UpperCase(JOURNAL_PRESETS_keys[i]) : i \in 1..Len(JOURNAL_PRESETS_keys) }

JournalEdit(contents) ==
  /\ ref \in DOMAIN journalHeap
  /\ clast.edits < MaxEdits
  /\ journalHeap' = [journalHeap EXCEPT ![ref] = contents]
  /\ clast' = [clast EXCEPT !.edits = @ + 1, !.fresh = FALSE]
  /\ UNCHANGED <<listHeap, dictHeap, ref, themeVars, exportVars, threadVars>>

\* preset['dpi'] = 999
JournalSetDpi(dpi) ==
  /\ ref \in DOMAIN journalHeap
  /\ JournalEdit([journalHeap[ref] EXCEPT !.dpi = dpi])

\* preset['figsize'] = (w, h)
JournalSetFigsize(figsize) ==
  /\ ref \in DOMAIN journalHeap
  /\ JournalEdit([journalHeap[ref] EXCEPT !.figsize = figsize])

\* preset['format'] = 'png'
JournalSetFormat(format) ==
  /\ ref \in DOMAIN journalHeap
  /\ JournalEdit([journalHeap[ref] EXCEPT !.format = format])

JournalNext ==
  \/ \E name \in JournalSpellings : GetJournalPreset(name)
  \/ \E dpi \in {72, 600, 999} : JournalSetDpi(dpi)
  \/ \E figsize \in { << <<1, 1>>, <<1, 1>> >>, << <<0, 1>>, <<-1, 1>> >> } :
       JournalSetFigsize(figsize)
  \/ \E format \in { <<"p","n","g">>, <<"b","m","p">> } :
       JournalSetFormat(format)

\* the names get_color is tried with: every key as written and in upper
\* case, a capitalised one, and names of no colour
ColorNames ==
  { OXFORD_COLORS_keys[i] : i \in 1..Len(OXFORD_COLORS_keys) } \cup
  { UpperCase(OXFORD_COLORS_keys[i]) : i \in 1..Len(OXFORD_COLORS_keys) } \cup
  { <<"C","o","r","a","l">>, <<"O","x","f","o","r","d","_","B","l","u","e">>,
    <<"i","n","v","a","l","i","d">>, <<"o","x","f","o","r","d"," ","b","l","u","e">>,
    <<>> }

GetColor(name) ==
  LET out == get_color(name)
  IN  /\ clast' = [ clast EXCEPT !.op = "get_color", !.name = name,
                                 !.n_colors = NoCount, !.err = out.err,
                                 !.fresh = FALSE, !.value = out.v,
                                 !.msg = IF out.err = "" THEN <<>>
                                         ELSE get_color_available ]
      /\ UNCHANGED <<listHeap, dictHeap, journalHeap, ref, themeVars, exportVars, threadVars>>

\* the library as imported, with matplotlib's own configuration
CatalogInit ==
  /\ Init
  /\ rc = rcParamsDefault

PaletteNext ==
  \/ \E name \in PaletteNames : \E n_colors \in CountsFor(name) :
       GetPalette(name, n_colors)
  \/ \E x \in EditValues : ListAppend(x)
  \/ ListPop
  \/ \E x \in EditValues : ListSetItem(x)

PaletteSpec == CatalogInit /\ [][PaletteNext]_vars

ColorNext == \E name \in ColorNames : GetColor(name)

ColorSpec == CatalogInit /\ [][ColorNext]_vars

\* every lookup by name: palettes whole, preset configs, presets applied,
\* journal presets
LookupNext ==
  \/ \E name \in PaletteNames : GetPalette(name, NoCount)
  \/ \E name \in PresetNames : GetPresetConfig(name)
  \/ \E name \in PresetNames : ApplyPreset(name)
  \/ \E name \in JournalNames : GetJournalPreset(name)

LookupSpec == CatalogInit /\ [][LookupNext]_vars

\* palettes asked for under either name of the function
AliasNext ==
  \/ \E name \in PaletteNames : \E n_colors \in CountsFor(name) :
       GetPalette(name, n_colors)
  \/ \E name \in PaletteNames : \E n_colors \in CountsFor(name) :
       GetColorPalette(name, n_colors)

AliasSpec == CatalogInit /\ [][AliasNext]_vars

JournalSpec == CatalogInit /\ [][JournalNext]_vars

PresetNext ==
  \/ \E name \in PresetNames : GetPresetConfig(name)
  \/ \E x \in EditValues : ListAppend(x)
  \/ ListPop
  \/ \E x \in EditValues : ListSetItem(x)
  \/ DictSetFontScale
  \/ DictSetColorCycle
  \/ \E name \in PresetNames : ApplyPreset(name)

PresetSpec == CatalogInit /\ [][PresetNext]_vars

----------------------------------------------------------------------------
(* The branding and export calls as steps *)

\* len(fig.texts), all figures together
RECURSIVE TotalTexts(_, _)
TotalTexts(figs, ids) ==
  IF ids = {} THEN 0
  ELSE LET fig == CHOOSE f \in ids : TRUE
       IN  Len(figs[fig]) + TotalTexts(figs, ids \ {fig})

\* the corners asked for: the four there are, one spelt with capitals and
\* one there is not
Positions ==
  { "bottom_right", "bottom_left", "top_right", "top_left", "Top_Left",
    "invalid_position" }

\* the opacities asked for: both ends of the range, one below and one above
Opacities == { <<0, 1>>, <<1, 1>>, <<-1, 10>>, <<3, 2>> }

AddOxfordBranding(fig, add_watermark, position, opacity) ==
  LET out == add_oxford_branding(figHeap, fig, add_watermark,
                                 "University of Oxford", position, opacity, 10)
  IN  /\ TotalTexts(figHeap, Figures) < MaxTexts
      /\ figHeap' = out.figs
      /\ elast' = [ NoExportCall EXCEPT
                      !.op = "add_oxford_branding", !.fig = fig,
                      !.add_watermark = add_watermark,
                      !.watermark_text = "University of Oxford",
                      !.position = position, !.opacity = opacity,
                      !.fontsize = 10, !.err = out.err, !.msg = out.msg,
                      !.ret = out.ret, !.texts_before = figHeap,
                      !.saved_before = saved,
                      !.added = IF add_watermark /\ out.err = ""
                                  THEN elast.added + 1 ELSE elast.added ]
      /\ UNCHANGED <<saved, themeVars, catalogVars, threadVars>>

BrandNext ==
  \E fig \in Figures, add_watermark \in BOOLEAN, position \in Positions,
     opacity \in Opacities :
    AddOxfordBranding(fig, add_watermark, position, opacity)

BrandSpec == CatalogInit /\ [][BrandNext]_vars

\* the file names asked for: without an extension, with the one of the
\* format in either case, and with the one of another format
FileNames ==
  { <<"p","l","o","t">>, <<"p","l","o","t",".","p","n","g">>,
    <<"p","l","o","t",".","P","N","G">>, <<"p","l","o","t",".","s","v","g">> }

\* the formats asked for: supported ones, one in capitals, one that is not
\* supported and the empty string
Formats ==
  { <<"p","n","g">>, <<"P","N","G">>, <<"s","v","g">>, <<"b","m","p">>, <<>> }

Resolutions == { 300, 1, 0, -1 }

SaveOxfordFigure(fig, filename, format, dpi) ==
  LET out == save_oxford_figure(saved, fig, filename, format, dpi, "tight")
  IN  /\ Len(saved) < MaxFiles
      /\ saved' = out.calls
      /\ elast' = [ NoExportCall EXCEPT
                      !.op = "save_oxford_figure", !.fig = fig,
                      !.filename = filename, !.format = format, !.dpi = dpi,
                      !.err = out.err, !.msg = out.msg,
                      !.texts_before = figHeap, !.saved_before = saved,
                      !.added = elast.added ]
      /\ UNCHANGED <<figHeap, themeVars, catalogVars, threadVars>>

SaveNext ==
  \E filename \in FileNames, format \in Formats, dpi \in Resolutions :
    SaveOxfordFigure("fig1", filename, format, dpi)

SaveSpec == CatalogInit /\ [][SaveNext]_vars

\* a journal-ready figure: fig, ax = oxford_figure(figsize=preset['figsize'])
ProfileFigure ==
  /\ ref \in DOMAIN journalHeap
  /\ OxfordFigure(journalHeap[ref].figsize, "seaborn-v0_8-paper", None, <<1, 1>>)

\* save_oxford_figure(fig, 'journal', format=preset['format'],
\* dpi=preset['dpi']) for the figure oxford_figure returned
ProfileSave ==
  /\ ref \in DOMAIN journalHeap
  /\ nfigs > 0
  /\ SaveOxfordFigure("fig1", <<"j","o","u","r","n","a","l">>,
                      journalHeap[ref].format, journalHeap[ref].dpi)

ProfileNext ==
  \/ \E name \in JournalSpellings : GetJournalPreset(name)
  \/ ProfileFigure
  \/ ProfileSave

ProfileSpec == CatalogInit /\ [][ProfileNext]_vars

----------------------------------------------------------------------------
(* Two threads in the theme applicator: get_oxford_rcparams statement by    *)
(* statement, apply_oxford_theme and reset_theme as single steps            *)

\* mutant: the original rcParams are not put back
restore_skipped(current, original_params) == current

\* plt.rcParams.update(original_params)
restore(current, original_params) == RcUpdate(current, original_params).v

\* the callers agree, before any call, to put every call under one lock
UseLock ==
  /\ lock = "unused"
  /\ last.depth = 0
  /\ lock' = "free"
  /\ UNCHANGED <<frames, race, themeVars, catalogVars, exportVars>>

\* thread t may start a call: it needs the lock when there is one
MayEnter(t) == frames[t].pc = "idle" /\ lock \in {"unused", "free"}
Acquired(t) == IF lock = "unused" THEN "unused" ELSE t
Released == IF lock = "unused" THEN "unused" ELSE "free"

\* between another thread's snapshot and its restore
InWindow(t) ==
  { u \in Threads \ {t} : frames[u].pc \in {"snapshot", "applied", "captured"} }

\* another thread's theme is in force and not yet taken back
SeesTransient(t) ==
  \E u \in Threads \ {t} :
    /\ frames[u].pc \in {"applied", "captured"}
    /\ rc # frames[u].original_params

\* what a change of rcParams by t does to the calls it falls into
Disturbed(t, after) ==
  [ u \in Threads |->
      IF u \in InWindow(t)
        THEN [frames[u] EXCEPT !.dirty = TRUE, !.update = after]
        ELSE frames[u] ]

\* original_params = plt.rcParams.copy()
PreviewSnapshot(t, style, cycle, scale) ==
  /\ MayEnter(t)
  /\ last.depth < MaxDepth
  /\ lock' = Acquired(t)
  /\ frames' = [frames EXCEPT ![t] =
                  [ NoFrame EXCEPT !.pc = "snapshot", !.style_base = style,
                                   !.color_cycle = cycle, !.font_scale = scale,
                                   !.original_params = rc ]]
  /\ race' = [race EXCEPT !.observed = @ \/ SeesTransient(t)]
  /\ pre' = rc
  /\ snap' = Snapshot
  /\ ret' = <<>>
  /\ last' = Call("get_oxford_rcparams", style, cycle, scale, "",
                  last.depth + 1)
  /\ UNCHANGED <<rc, nfigs, catalogVars, exportVars>>

\* apply_oxford_theme(...) inside get_oxford_rcparams; an exception leaves
\* the call at once
PreviewApply(t) ==
  LET f == frames[t]
      out == apply_oxford_theme(rc, f.style_base, f.color_cycle, f.font_scale)
  IN  /\ f.pc = "snapshot"
      /\ rc' = out.v
      /\ race' = [race EXCEPT !.observed = @ \/ SeesTransient(t)]
      /\ IF out.err = ""
           THEN /\ frames' = [frames EXCEPT ![t].pc = "applied"]
                /\ UNCHANGED <<lock, last>>
           ELSE /\ frames' = [frames EXCEPT ![t] = NoFrame]
                /\ lock' = Released
                /\ last' = Call("get_oxford_rcparams", f.style_base,
                                f.color_cycle, f.font_scale, out.err,
                                last.depth)
      /\ UNCHANGED <<pre, snap, ret, nfigs, catalogVars, exportVars>>

\* oxford_params = plt.rcParams.copy()
PreviewCapture(t) ==
  /\ frames[t].pc = "applied"
  /\ frames' = [frames EXCEPT ![t].pc = "captured", ![t].oxford_params = rc]
  /\ race' = [race EXCEPT !.observed = @ \/ SeesTransient(t)]
  /\ UNCHANGED <<lock, themeVars, catalogVars, exportVars>>

\* plt.rcParams.update(original_params); return dict(oxford_params)
PreviewRestore(t) ==
  LET f == frames[t]
      restored == restore(rc, f.original_params)
  IN  /\ f.pc = "captured"
      /\ rc' = restored
      /\ ret' = <<f.oxford_params>>
      /\ last' = Call("get_oxford_rcparams", f.style_base, f.color_cycle,
                      f.font_scale, "", last.depth)
      /\ pre' = f.original_params
      /\ frames' = [frames EXCEPT ![t] = NoFrame]
      /\ lock' = Released
      /\ race' = [race EXCEPT !.lost = @ \/ (f.dirty /\ restored # f.update)]
      /\ UNCHANGED <<snap, nfigs, catalogVars, exportVars>>

\* apply_oxford_theme called by t
ThreadApply(t, style, cycle, scale) ==
  LET out == apply_oxford_theme(rc, style, cycle, scale)
  IN  /\ MayEnter(t)
      /\ last.depth < MaxDepth
      /\ rc' = out.v
      /\ frames' = Disturbed(t, out.v)
      /\ race' = [race EXCEPT !.observed = @ \/ SeesTransient(t)]
      /\ pre' = rc
      /\ snap' = Snapshot
      /\ ret' = <<>>
      /\ last' = Call("apply_oxford_theme", style, cycle, scale, out.err,
                      last.depth + 1)
      /\ UNCHANGED <<lock, nfigs, catalogVars, exportVars>>

\* reset_theme called by t
ThreadReset(t) ==
  /\ MayEnter(t)
  /\ last.depth < MaxDepth
  /\ rc' = reset_theme(rc)
  /\ frames' = Disturbed(t, reset_theme(rc))
  /\ pre' = rc
  /\ snap' = Snapshot
  /\ ret' = <<>>
  /\ last' = [NoCall EXCEPT !.op = "reset_theme", !.depth = last.depth + 1]
  /\ UNCHANGED <<lock, race, nfigs, catalogVars, exportVars>>

\* the themes the threads ask for: two that pass every check and one whose
\* colour is rejected after the base style is in force
ThreadArgs ==
  { <<"seaborn-v0_8-paper", None, <<1, 1>> >>,
    <<"seaborn-v0_8-notebook", None, <<3, 2>> >>,
    <<"seaborn-v0_8-whitegrid", BadLiteralCycle, <<1, 1>> >> }

ThreadNext ==
  \/ UseLock
  \/ \E t \in Threads, a \in ThreadArgs : PreviewSnapshot(t, a[1], a[2], a[3])
  \/ \E t \in Threads : PreviewApply(t)
  \/ \E t \in Threads : PreviewCapture(t)
  \/ \E t \in Threads : PreviewRestore(t)
  \/ \E t \in Threads, a \in ThreadArgs : ThreadApply(t, a[1], a[2], a[3])
  \/ \E t \in Threads : ThreadReset(t)

ThreadSpec == CatalogInit /\ [][ThreadNext]_vars

----------------------------------------------------------------------------
(* Properties of the theme applicator, checked under Spec *)

OxfordBlue == <<"#","0","0","2","1","4","7">>
White == <<"w","h","i","t","e">>

Themed(r) == r["axes.labelcolor"] = Str(OxfordBlue)

\* C1: after reset_theme every rcParams entry equals the rcParamsDefault
\* snapshot, whatever sequence of theme calls came before
C1_ResetRestoresDefaults ==
  last.op = "reset_theme" => \A p \in Params : rc[p] = rcParamsDefault[p]

\* reset from a themed configuration whose font sizes were scaled
C1_Witness ==
  /\ last.op = "reset_theme"
  /\ Themed(pre)
  /\ pre["font.size"] # rcParamsDefault["font.size"]
  /\ pre["axes.labelsize"] # rcParamsDefault["axes.labelsize"]
  /\ rc = rcParamsDefault

\* C11 as stated: reset_theme after a run of theme calls gives every
\* parameter the value it had before the first call of the run, whatever
\* configuration the caller had then
C11_ResetRestoresPreTheme ==
  last.op = "reset_theme" => \A p \in Params : rc[p] = snap[p]

\* C11 amended: reset_theme after a run of theme calls gives every parameter
\* its rcParamsDefault value; that is the value it had before the first call
\* of the run exactly for the parameters the caller had left at the default
C11_ResetRestoresLibraryDefaults ==
  last.op = "reset_theme" =>
    \A p \in Params :
      /\ rc[p] = rcParamsDefault[p]
      /\ (rc[p] = snap[p]) <=> (snap[p] = rcParamsDefault[p])

\* reset after two scaled theme calls made from a configuration the caller
\* had customised: the caller's label colour is gone as well
C11_Witness ==
  /\ last.op = "reset_theme"
  /\ snap["axes.labelcolor"] = Str(<<"r","e","d">>)
  /\ Themed(pre)
  /\ pre["font.size"] = Num(45, 2)
  /\ rc["axes.labelcolor"] = rcParamsDefault["axes.labelcolor"]
  /\ rc["font.size"] = rcParamsDefault["font.size"]

\* C2: a get_oxford_rcparams call that returns leaves every rcParams entry
\* as it was when the call started
C2_PreviewLeavesRcParams ==
  (last.op = "get_oxford_rcparams" /\ last.err = "") =>
    \A p \in Params : rc[p] = pre[p]

\* a preview taken from a themed, non-default configuration whose result
\* differs from that configuration
C2_Witness ==
  /\ last.op = "get_oxford_rcparams"
  /\ last.err = ""
  /\ Themed(pre)
  /\ pre # rcParamsDefault
  /\ ret # <<>>
  /\ ret[1]["font.size"] # pre["font.size"]
  /\ rc = pre

\* C3: apply_oxford_theme with font_scale <= 0, or with an empty
\* color_cycle, raises ValueError and leaves rcParams as they were
C3_BadArgumentsRejected ==
  ( /\ last.op = "apply_oxford_theme"
    /\ \/ last.font_scale[1] <= 0
       \/ last.color_cycle.some /\ Len(last.color_cycle.v) = 0 ) =>
    (last.err = "ValueError" /\ rc = pre)

\* an empty color_cycle rejected while a customised configuration is in force
C3_Witness ==
  /\ last.op = "apply_oxford_theme"
  /\ last.color_cycle = EmptyCycle
  /\ last.err = "ValueError"
  /\ pre # rcParamsDefault
  /\ rc = pre

\* an entry apply_oxford_theme cannot use: an unknown name, or a '#' literal
\* that is no colour
InvalidEntry(color) ==
  IF StartsWithHash(color) THEN ~IsHexColor(color)
  ELSE lower(color) \notin DOMAIN OXFORD_COLORS

\* C4: apply_oxford_theme given a color_cycle with an invalid entry fails
\* and leaves every rcParams entry as it was, the base style's included
C4_InvalidColorLeavesRcParams ==
  ( /\ last.op = "apply_oxford_theme"
    /\ last.font_scale[1] > 0
    /\ last.style_base \in DOMAIN StyleSheets
    /\ last.color_cycle.some
    /\ \E i \in 1..Len(last.color_cycle.v) : InvalidEntry(last.color_cycle.v[i]) ) =>
    (last.err # "" /\ \A p \in Params : rc[p] = pre[p])

\* C8: after a successful apply_oxford_theme the label, edge, text and tick
\* colours and the legend border are Oxford blue (#002147), the legend frame
\* is on and both backgrounds are white
C8_ThemeColours ==
  (last.op = "apply_oxford_theme" /\ last.err = "") =>
    /\ OXFORD_COLORS.oxford_blue = OxfordBlue
    /\ \A p \in { "axes.labelcolor", "axes.edgecolor", "text.color",
                  "xtick.color", "ytick.color", "legend.edgecolor" } :
         rc[p] = Str(OxfordBlue)
    /\ rc["legend.frameon"] = Bool(TRUE)
    /\ rc["figure.facecolor"] = Str(White)
    /\ rc["axes.facecolor"] = Str(White)

\* the theme applied over the whitegrid style (which turns the legend frame
\* off and greys the labels) from a configuration with a grey figure
C8_Witness ==
  /\ last.op = "apply_oxford_theme"
  /\ last.err = ""
  /\ last.style_base = "seaborn-v0_8-whitegrid"
  /\ pre["figure.facecolor"] # Str(White)
  /\ pre["legend.frameon"] = Bool(FALSE)
  /\ pre["axes.labelcolor"] # Str(OxfordBlue)
  /\ rc["legend.frameon"] = Bool(TRUE)

\* what a color_cycle argument stands for, entry by entry
Resolution(cycle) ==
  [i \in 1..Len(cycle) |->
    IF cycle[i][1] = "#" THEN cycle[i] ELSE OXFORD_COLORS[lower(cycle[i])]]

\* C9: after a successful apply_oxford_theme the colour cycle is the
\* resolution of color_cycle, in order and of the same length, or the default
\* eight colours when color_cycle is None
C9_ColourCycle ==
  (last.op = "apply_oxford_theme" /\ last.err = "") =>
    IF last.color_cycle.some
      THEN /\ rc["axes.prop_cycle"] = List(Resolution(last.color_cycle.v))
           /\ Len(rc["axes.prop_cycle"].l) = Len(last.color_cycle.v)
      ELSE /\ rc["axes.prop_cycle"] = List(OXFORD_PALETTE)
           /\ Len(rc["axes.prop_cycle"].l) = 8

\* a cycle mixing a capitalised name, a lower-case name and a literal
C9_Witness ==
  /\ last.op = "apply_oxford_theme"
  /\ last.err = ""
  /\ last.color_cycle.some
  /\ last.color_cycle.v[1] = <<"C","o","r","a","l">>
  /\ rc["axes.prop_cycle"].l =
       << OXFORD_COLORS.coral, OXFORD_COLORS.aqua,
          <<"#","F","F","0","0","0","0">> >>

\* C10: with font_scale # 1 a successful apply_oxford_theme multiplies by
\* font_scale each of the seven font-size parameters that is numeric once
\* the base style is in force and leaves the symbolic ones alone; with
\* font_scale = 1 all seven are as the base style leaves them
C10_FontScaling ==
  (last.op = "apply_oxford_theme" /\ last.err = "") =>
    LET current == StyleUse(pre, last.style_base)
        scale == last.font_scale
    IN  /\ Cardinality(FontParams) = 7
        /\ \A p \in FontParams :
             rc[p] = IF scale # <<1, 1>> /\ current[p].kind = "num"
                       THEN Num(current[p].n * scale[1], current[p].d * scale[2])
                       ELSE current[p]

\* font_scale 1.5 over the paper style from the defaults: font.size and
\* axes.labelsize are scaled, the symbolic figure.titlesize is untouched
C10_Witness ==
  /\ last.op = "apply_oxford_theme"
  /\ last.err = ""
  /\ last.font_scale = <<3, 2>>
  /\ last.style_base = "seaborn-v0_8-paper"
  /\ pre = rcParamsDefault
  /\ rc["font.size"] = Num(15, 1)
  /\ rc["axes.labelsize"] = Num(66, 5)
  /\ rc["figure.titlesize"] = pre["figure.titlesize"]
  /\ rc["figure.titlesize"].kind = "str"

----------------------------------------------------------------------------
(* Properties of the palette catalog, checked under PaletteSpec *)

\* the get_palette call that has just returned a list
Returned ==
  /\ clast.op = "get_palette"
  /\ clast.err = ""
  /\ clast.fresh

\* C5: get_palette(P, count) with count >= 1 has exactly count elements,
\* element i being S[i mod L] of the stored sequence S of length L (a prefix
\* when count <= L, cycling from the start when count > L); without a count
\* the result equals S
C5_PaletteCounts ==
  Returned =>
    LET S == ColorPalettes[lower(clast.name)]
        L == Len(S)
        count == clast.n_colors
        result == listHeap[ref]
    IN  IF count.some
          THEN count.v >= 1 =>
                 /\ Len(result) = count.v
                 /\ \A i \in 0..(count.v - 1) : result[i + 1] = S[(i % L) + 1]
          ELSE result = S

\* eleven colours of the five-colour health palette: two full turns and
\* the first colour again
C5_Witness ==
  /\ Returned
  /\ lower(clast.name) = "health"
  /\ clast.n_colors = Some(11)
  /\ Len(listHeap[ref]) = 11
  /\ listHeap[ref][11] = ColorPalettes.health[1]
  /\ listHeap[ref][10] = ColorPalettes.health[5]

\* C6: get_palette returns an independent copy: whatever the caller appends
\* to, removes from or overwrites in a list it was returned, every stored
\* palette keeps its contents and a later get_palette call returns what it
\* returns from the untouched catalog
C6_PaletteCopies ==
  /\ \A k \in DOMAIN palettes : listHeap[palettes[k]] = ColorPalettes[k]
  /\ Returned =>
       LET untouched == get_palette(PaletteLists, clast.name, clast.n_colors)
       IN  listHeap[ref] = untouched.lists[untouched.ref]

\* a whole palette is asked for after the caller has changed a list an
\* earlier call returned
C6_Witness ==
  /\ Returned
  /\ clast.edits > 0
  /\ ~clast.n_colors.some
  /\ lower(clast.name) = "primary"
  /\ listHeap[ref] = ColorPalettes.primary

\* C18: get_palette rejects a count of 0 or below with an error, and a list
\* it returns is never empty and has the length asked for
C18_CountMustBePositive ==
  (clast.op = "get_palette" /\ lower(clast.name) \in DOMAIN palettes) =>
    /\ (clast.n_colors.some /\ clast.n_colors.v <= 0) => clast.err # ""
    /\ Returned =>
         /\ Len(listHeap[ref]) > 0
         /\ clast.n_colors.some => Len(listHeap[ref]) = clast.n_colors.v

\* C19, checked under AliasSpec: get_color_palette behaves as get_palette:
\* for every palette name and every count, given or not, it returns a list
\* equal to the one get_palette returns and raises for the same inputs, with
\* the same message
C19_AliasBehavesAlike ==
  clast.op = "get_color_palette" =>
    LET direct == get_palette(PaletteLists, clast.name, clast.n_colors)
    IN  /\ clast.err = direct.err
        /\ clast.err = "" =>
             /\ ref \notin DOMAIN PaletteLists
             /\ listHeap[ref] = direct.lists[direct.ref]
        /\ clast.err # "" =>
             /\ ref = NoneRef
             /\ clast.msg = palettes_available
        /\ \A k \in DOMAIN palettes : listHeap[palettes[k]] = ColorPalettes[k]

\* get_color_palette('vibrant', n_colors=5) gives the first five vibrant
\* colours
C19_Witness ==
  /\ clast.op = "get_color_palette"
  /\ lower(clast.name) = "vibrant"
  /\ clast.n_colors = Some(5)
  /\ clast.err = ""
  /\ listHeap[ref] = SubSeq(ColorPalettes.vibrant, 1, 5)

----------------------------------------------------------------------------
(* Properties of the preset catalog, checked under PresetSpec *)

\* C7: get_preset_config returns an independent copy: whatever the caller
\* does to the dict returned, replacing a field or changing the returned
\* color_cycle list in place, every catalog entry keeps its fields and its
\* colour cycle, and apply_preset applies what the untouched catalog says
C7_PresetConfigCopies ==
  /\ \A k \in DOMAIN PRESETS :
       LET entry == dictHeap[PRESETS[k]]
       IN  /\ entry = PresetDicts[PRESETS[k]]
           /\ entry.color_cycle # NoneRef =>
                listHeap[entry.color_cycle] = PresetLists[entry.color_cycle]
  /\ last.op = "apply_preset" =>
       rc = apply_preset(pre, PresetLists, PresetDicts, last.preset_name).v

----------------------------------------------------------------------------
(* Further properties of the theme applicator, checked under Spec *)

\* C12: the mapping a get_oxford_rcparams call returns equals, parameter for
\* parameter, the rcParams apply_oxford_theme with the same arguments gives
\* from the configuration the call started in: the theme colours, the
\* resolved colour cycle and the scaled font sizes
C12_PreviewEqualsApplied ==
  (last.op = "get_oxford_rcparams" /\ last.err = "") =>
    LET applied == apply_oxford_theme(pre, last.style_base, last.color_cycle,
                                      last.font_scale)
        styled == StyleUse(pre, last.style_base)
    IN  /\ applied.err = ""
        /\ Len(ret) = 1
        /\ \A p \in Params : ret[1][p] = applied.v[p]
        /\ Themed(ret[1])
        /\ ret[1]["axes.prop_cycle"] =
             List(IF last.color_cycle.some THEN Resolution(last.color_cycle.v)
                  ELSE OXFORD_PALETTE)
        /\ styled["font.size"].kind = "num" =>
             ret[1]["font.size"] =
               Num(styled["font.size"].n * last.font_scale[1],
                   styled["font.size"].d * last.font_scale[2])

\* a preview with a colour cycle and font_scale 1.5 taken from the library
\* defaults: the mapping holds the scaled size, rcParams do not
C12_Witness ==
  /\ last.op = "get_oxford_rcparams"
  /\ last.err = ""
  /\ last.color_cycle.some
  /\ last.font_scale = <<3, 2>>
  /\ pre = rcParamsDefault
  /\ ret[1]["font.size"] = Num(15, 1)
  /\ rc["font.size"] = Num(10, 1)

\* C13: apply_preset with a name that lower-cases to a catalog key leaves
\* rcParams as apply_oxford_theme with the preset's style_base, color_cycle
\* and font_scale leaves them from the same configuration, the default eight
\* colours standing for a color_cycle of None; any other name raises
\* ValueError with rcParams as they were
C13_PresetDelegates ==
  last.op = "apply_preset" =>
    LET key == lower(last.preset_name)
    IN  IF key \in DOMAIN PRESETS
          THEN LET config == dictHeap[PRESETS[key]]
                   color_cycle == IF config.color_cycle = NoneRef THEN None
                                  ELSE Some(listHeap[config.color_cycle])
                   applied == apply_oxford_theme(pre, config.style_base,
                                                 color_cycle, config.font_scale)
               IN  /\ last.err = applied.err
                   /\ rc = applied.v
                   /\ (last.err = "" /\ config.color_cycle = NoneRef) =>
                        /\ rc["axes.prop_cycle"] = List(OXFORD_PALETTE)
                        /\ Len(OXFORD_PALETTE) = 8
                   /\ (last.err = "" /\ config.color_cycle # NoneRef) =>
                        rc["axes.prop_cycle"] =
                          List(Resolution(PresetLists[config.color_cycle]))
          ELSE /\ last.err = "ValueError"
               /\ rc = pre

\* 'Print' finds the print preset: its four-colour cycle is in force
C13_Witness ==
  /\ last.op = "apply_preset"
  /\ last.preset_name = <<"P","r","i","n","t">>
  /\ last.err = ""
  /\ Len(rc["axes.prop_cycle"].l) = Len(PresetLists["PRESETS.print.color_cycle"])
  /\ rc["axes.prop_cycle"] # pre["axes.prop_cycle"]
  /\ rc["axes.prop_cycle"] # List(OXFORD_PALETTE)

\* a >= 1.5 * b for two numeric values
AtLeastOneAndAHalfTimes(a, b) == 2 * a.n * b.d >= 3 * b.n * a.d

\* C14: each font-size parameter that is numeric after apply_preset('poster')
\* is at least 1.5 times its value after apply_preset('default') made from
\* the same configuration
C14_PosterFonts ==
  ( /\ last.op = "apply_preset"
    /\ lower(last.preset_name) = "poster"
    /\ last.err = "" ) =>
    LET default == apply_preset(pre, listHeap, dictHeap,
                                <<"d","e","f","a","u","l","t">>)
    IN  /\ default.err = ""
        /\ \A p \in FontParams :
             rc[p].kind = "num" =>
               /\ default.v[p].kind = "num"
               /\ AtLeastOneAndAHalfTimes(rc[p], default.v[p])

\* poster from the library defaults: font.size 18 against 10, axes.labelsize
\* 15.84 against 8.8
C14_Witness ==
  /\ last.op = "apply_preset"
  /\ lower(last.preset_name) = "poster"
  /\ last.err = ""
  /\ pre = rcParamsDefault
  /\ rc["font.size"] = Num(18, 1)
  /\ rc["axes.labelsize"] = Num(396, 25)

----------------------------------------------------------------------------
(* Properties of the colour registry, checked under ColorSpec *)

\* C16: get_color(name) returns the OXFORD_COLORS value stored under the
\* lower-cased name whenever that is a key, so spellings that differ in case
\* only give one value; for any other name it raises ValueError with every
\* key listed once in ascending order; no catalog object and no rcParams
\* entry changes
C16_GetColor ==
  /\ clast.op = "get_color" =>
       LET key == lower(clast.name)
       IN  IF key \in DOMAIN OXFORD_COLORS
             THEN /\ clast.err = ""
                  /\ clast.value = OXFORD_COLORS[key]
                  /\ clast.value = get_color(LowerCase(clast.name)).v
                  /\ clast.value = get_color(UpperCase(clast.name)).v
             ELSE /\ clast.err = "ValueError"
                  /\ clast.value = <<>>
                  /\ Len(clast.msg) = Cardinality(DOMAIN OXFORD_COLORS)
                  /\ { lower(clast.msg[i]) : i \in 1..Len(clast.msg) }
                       = DOMAIN OXFORD_COLORS
                  /\ \A i \in 1..(Len(clast.msg) - 1) :
                       StrLess(clast.msg[i], clast.msg[i + 1])
  /\ listHeap = PresetLists @@ PaletteLists
  /\ dictHeap = PresetDicts
  /\ rc = rcParamsDefault

\* 'ROYAL_BLUE' finds the value stored under 'royal_blue'
C16_Witness ==
  /\ clast.op = "get_color"
  /\ clast.name = UpperCase(<<"r","o","y","a","l","_","b","l","u","e">>)
  /\ clast.err = ""
  /\ clast.value = OXFORD_COLORS.royal_blue
  /\ clast.value = <<"#","1","D","4","2","A","6">>

\* '#' followed by exactly six hexadecimal digits
IsHex6(s) ==
  /\ Len(s) = 7
  /\ s[1] = "#"
  /\ \A i \in 2..7 : s[i] \in HexDigits

\* C20: every colour the catalogs can hand out, that is every OXFORD_COLORS
\* value (and so every get_color result), every element of every palette
\* and every element of the eight-colour OXFORD_PALETTE, is '#' followed by
\* exactly six hexadecimal digits
C20_ColoursAreHex ==
  /\ \A k \in DOMAIN OXFORD_COLORS : IsHex6(OXFORD_COLORS[k])
  /\ \A id \in DOMAIN PaletteLists :
       \A i \in 1..Len(listHeap[id]) : IsHex6(listHeap[id][i])
  /\ Len(OXFORD_PALETTE) = 8
  /\ \A i \in 1..Len(OXFORD_PALETTE) : IsHex6(OXFORD_PALETTE[i])
  /\ (clast.op = "get_color" /\ clast.err = "") => IsHex6(clast.value)

\* get_color has handed out coral, '#FE615A'
C20_Witness ==
  /\ clast.op = "get_color"
  /\ clast.err = ""
  /\ lower(clast.name) = "coral"
  /\ clast.value = <<"#","F","E","6","1","5","A">>
  /\ clast.value = OXFORD_PALETTE[4]
  /\ clast.value = listHeap["ColorPalettes.VIBRANT"][1]

----------------------------------------------------------------------------
(* Properties of the lookups by name, checked under LookupSpec *)

\* the error message names every key of the catalog, each once
Enumerates(msg, catalog_keys) ==
  /\ Len(msg) = Cardinality(catalog_keys)
  /\ { lower(msg[i]) : i \in 1..Len(msg) } = catalog_keys

\* C17: get_palette, get_preset_config, apply_preset and get_journal_preset
\* look a name up by its lower-case form, so a name gives what its
\* lower-case spelling gives; a name whose lower-case form is no key of the
\* catalog raises ValueError with a message naming every key of that catalog
C17_LookupsIgnoreCase ==
  /\ clast.op = "get_palette" =>
       IF lower(clast.name) \in DOMAIN palettes
         THEN LET canon == get_palette(PaletteLists, LowerCase(clast.name),
                                       clast.n_colors)
              IN  /\ clast.err = ""
                  /\ canon.err = ""
                  /\ listHeap[ref] = canon.lists[canon.ref]
                  /\ listHeap[ref] = ColorPalettes[lower(clast.name)]
         ELSE /\ clast.err = "ValueError"
              /\ Enumerates(clast.msg, DOMAIN palettes)
  /\ clast.op = "get_preset_config" =>
       IF lower(clast.name) \in DOMAIN PRESETS
         THEN LET canon == get_preset_config(PresetDicts, LowerCase(clast.name))
              IN  /\ clast.err = ""
                  /\ canon.err = ""
                  /\ dictHeap[ref] = canon.dicts[canon.ref]
                  /\ dictHeap[ref] = PresetDicts[PRESETS[lower(clast.name)]]
         ELSE /\ clast.err = "ValueError"
              /\ Enumerates(clast.msg, DOMAIN PRESETS)
  /\ clast.op = "get_journal_preset" =>
       IF lower(clast.name) \in DOMAIN JOURNAL_PRESETS
         THEN LET canon == get_journal_preset(JournalDicts,
                                              LowerCase(clast.name))
              IN  /\ clast.err = ""
                  /\ canon.err = ""
                  /\ journalHeap[ref] = canon.dicts[canon.ref]
                  /\ journalHeap[ref] =
                       JournalDicts[JOURNAL_PRESETS[lower(clast.name)]]
         ELSE /\ clast.err = "ValueError"
              /\ Enumerates(clast.msg, DOMAIN JOURNAL_PRESETS)
  /\ last.op = "apply_preset" =>
       IF lower(last.preset_name) \in DOMAIN PRESETS
         THEN LET canon == apply_preset(pre, listHeap, dictHeap,
                                        LowerCase(last.preset_name))
              IN  /\ last.err = canon.err
                  /\ rc = canon.v
         ELSE /\ last.err = "ValueError"
              /\ Enumerates(last.msg, DOMAIN PRESETS)
              /\ rc = pre

\* 'NATURE_DOUBLE' finds the nature_double preset after 'MINIMAL' was
\* applied as the minimal preset
C17_Witness ==
  /\ clast.op = "get_journal_preset"
  /\ clast.name = <<"N","A","T","U","R","E","_","D","O","U","B","L","E">>
  /\ clast.err = ""
  /\ journalHeap[ref].figsize = << <<7, 1>>, <<5, 1>> >>
  /\ last.op = "apply_preset"
  /\ last.preset_name = <<"M","I","N","I","M","A","L">>
  /\ last.err = ""
  /\ rc["axes.grid"] = Bool(TRUE)

----------------------------------------------------------------------------
(* Properties of the journal presets, checked under JournalSpec *)

\* C21: get_journal_preset returns an independent copy: whichever field of
\* the returned dict the caller changes, every JOURNAL_PRESETS entry keeps
\* its fields and a later get_journal_preset returns the entry as written
C21_JournalPresetCopies ==
  /\ \A k \in DOMAIN JOURNAL_PRESETS :
       journalHeap[JOURNAL_PRESETS[k]] = JournalDicts[JOURNAL_PRESETS[k]]
  /\ (clast.op = "get_journal_preset" /\ clast.err = "" /\ clast.fresh) =>
       /\ ref \notin DOMAIN JournalDicts
       /\ journalHeap[ref] = JournalDicts[JOURNAL_PRESETS[lower(clast.name)]]

\* the nature preset is asked for again after the caller has changed a
\* preset it was returned
C21_Witness ==
  /\ clast.op = "get_journal_preset"
  /\ clast.err = ""
  /\ clast.fresh
  /\ clast.edits > 0
  /\ lower(clast.name) = "nature"
  /\ journalHeap[ref].dpi = PUBLICATION_DPI

----------------------------------------------------------------------------
(* Properties of the branding helper, checked under BrandSpec *)

\* the four corners a watermark can go to
Corners == {"bottom_right", "bottom_left", "top_right", "top_left"}

\* 0 <= opacity <= 1
InRange(opacity) == opacity[1] >= 0 /\ opacity[1] <= opacity[2]

Branded == elast.op = "add_oxford_branding"

\* C22: add_oxford_branding with add_watermark false returns the figure it
\* was given and leaves every figure's texts as they were, whatever the
\* position and the opacity are; with add_watermark true, an opacity in
\* [0, 1] and one of the four corners it returns the figure it was given
\* and that figure has exactly one more text, put after the ones it had;
\* nothing is de-duplicated, so the texts on the figures are as many as the
\* calls that added one.
C22_BrandingAddsOneOverlayPerCall ==
  /\ (Branded /\ ~elast.add_watermark) =>
       /\ elast.err = ""
       /\ elast.ret = elast.fig
       /\ figHeap = elast.texts_before
  /\ (Branded /\ elast.add_watermark /\ InRange(elast.opacity)
        /\ elast.position \in Corners) =>
       /\ elast.err = ""
       /\ elast.ret = elast.fig
       /\ Len(figHeap[elast.fig]) = Len(elast.texts_before[elast.fig]) + 1
       /\ SubSeq(figHeap[elast.fig], 1, Len(elast.texts_before[elast.fig]))
            = elast.texts_before[elast.fig]
       /\ \A fig \in Figures \ {elast.fig} :
            figHeap[fig] = elast.texts_before[fig]
  /\ TotalTexts(figHeap, Figures) = elast.added

\* the same watermark asked for twice stands twice on the figure
C22_Witness ==
  /\ Branded /\ elast.add_watermark /\ elast.err = ""
  /\ elast.added = 2
  /\ Len(figHeap[elast.fig]) = 2
  /\ figHeap[elast.fig][1] = figHeap[elast.fig][2]

\* C23: add_oxford_branding with add_watermark true raises ValueError when
\* the opacity is outside [0, 1] or the position is not one of the four
\* corners, and no figure's texts change; when the position is what is
\* wrong the message lists the four corners.
C23_BrandingRejectsBadOpacityAndCorner ==
  (Branded /\ elast.add_watermark
     /\ (~InRange(elast.opacity) \/ elast.position \notin Corners)) =>
    /\ elast.err = "ValueError"
    /\ figHeap = elast.texts_before
    /\ (InRange(elast.opacity) =>
          /\ Len(elast.msg) = 4
          /\ { elast.msg[i] : i \in 1..Len(elast.msg) } = Corners)

\* a corner spelt with capitals is rejected on a figure that has a watermark
C23_Witness ==
  /\ Branded /\ elast.add_watermark /\ elast.err = "ValueError"
  /\ elast.position = "Top_Left" /\ elast.opacity = <<1, 1>>
  /\ Len(figHeap[elast.fig]) = 1

----------------------------------------------------------------------------
(* Properties of the export helper, checked under SaveSpec *)

\* s ends with suffix when capitals and small letters count as the same
EndsWithIgnoringCase(s, suffix) ==
  /\ Len(suffix) <= Len(s)
  /\ \A i \in 1..Len(suffix) :
       LowerChar(s[Len(s) - Len(suffix) + i]) = LowerChar(suffix[i])

Saving == elast.op = "save_oxford_figure"

\* the name the last call handed to savefig
Written == saved[Len(saved)].fname

\* C24: a save_oxford_figure call that succeeds hands savefig the filename
\* as given when it ends, capitals or not, with '.' and the format, and the
\* filename followed by '.' and the format otherwise; 'plot' and 'plot.png'
\* with format 'png' both give 'plot.png'; the name written, saved again
\* with the same format, is kept as it is.
C24_ExtensionAddedOnce ==
  (Saving /\ elast.err = "") =>
    LET ext == <<".">> \o elast.format
    IN  /\ Len(saved) = Len(elast.saved_before) + 1
        /\ EndsWithIgnoringCase(elast.filename, ext) =>
             Written = elast.filename
        /\ ~EndsWithIgnoringCase(elast.filename, ext) =>
             Written = elast.filename \o ext
        /\ (elast.format = <<"p","n","g">>
              /\ elast.filename \in { <<"p","l","o","t">>,
                                      <<"p","l","o","t",".","p","n","g">> }) =>
             Written = <<"p","l","o","t",".","p","n","g">>
        /\ save_filename(Written, elast.format) = Written

\* 'plot.PNG' saved as 'png' keeps its name
C24_Witness ==
  /\ Saving /\ elast.err = ""
  /\ elast.filename = <<"p","l","o","t",".","P","N","G">>
  /\ elast.format = <<"p","n","g">>
  /\ Written = <<"p","l","o","t",".","P","N","G">>

\* the formats savefig can write
SupportedFormats ==
  { <<"p","n","g">>, <<"s","v","g">>, <<"p","d","f">>, <<"e","p","s">>,
    <<"t","i","f","f">>, <<"j","p","g">>, <<"j","p","e","g">>, <<"p","s">>,
    <<"r","a","w">>, <<"r","g","b","a">>, <<"p","g","f">> }

\* the call raised ValueError, made no call to savefig and, where the
\* format is what is wrong, listed the supported formats
Rejected ==
  /\ elast.err = "ValueError"
  /\ saved = elast.saved_before
  /\ (elast.dpi > 0 =>
        /\ Len(elast.msg) = Cardinality(SupportedFormats)
        /\ { elast.msg[i] : i \in 1..Len(elast.msg) } = SupportedFormats)

\* C25 as stated: save_oxford_figure raises ValueError when dpi <= 0 or the
\* format is not one of png, svg, pdf, eps, tiff, jpg, jpeg, ps, raw, rgba,
\* pgf, and then nothing reaches savefig.
C25_UnlistedFormatRejected ==
  (Saving /\ (elast.dpi <= 0 \/ elast.format \notin SupportedFormats)) =>
    Rejected

\* C25, amended: save_oxford_figure raises ValueError when dpi <= 0 or the
\* format in small letters is not one of the supported formats, and then
\* nothing reaches savefig; a supported format spelt with capitals is
\* accepted.
C25_UnsupportedFormatRejected ==
  /\ (Saving /\ (elast.dpi <= 0
                   \/ LowerCase(elast.format) \notin SupportedFormats)) =>
       Rejected
  /\ (Saving /\ elast.dpi > 0
        /\ LowerCase(elast.format) \in SupportedFormats) =>
       elast.err = ""

\* 'bmp' is rejected at a resolution that is fine, after a figure was saved
C25_Witness ==
  /\ Saving /\ elast.err = "ValueError"
  /\ elast.format = <<"b","m","p">> /\ elast.dpi = 300
  /\ Len(saved) = 1

----------------------------------------------------------------------------
(* Properties of the theme applicator with two threads, checked under      *)
(* ThreadSpec                                                              *)

Idle == \A t \in Threads : frames[t].pc = "idle"

\* C26: when every apply_oxford_theme, reset_theme and get_oxford_rcparams
\* call is made under one global lock, no update is lost to the restore of
\* a get_oxford_rcparams call, no call sees the theme such a call has in
\* force for the time being, at most one call is under way, and a
\* get_oxford_rcparams call that returns leaves rcParams as they were when
\* it started.  (Without the lock the lost update and the observation are
\* both reached: C26_Witness.)
C26_GlobalLockSerialisesPreview ==
  lock # "unused" =>
    /\ ~race.lost
    /\ ~race.observed
    /\ Cardinality({ t \in Threads : frames[t].pc # "idle" }) <= 1
    /\ (lock = "free") <=> Idle
    /\ (last.op = "get_oxford_rcparams" /\ last.err = "" /\ ret # <<>>) =>
         rc = pre

\* without a lock: a theme applied by one thread between the other's
\* snapshot and restore was seen in passing and then overwritten
C26_Witness ==
  /\ lock = "unused"
  /\ race.lost
  /\ race.observed
  /\ Idle
  /\ last.op = "get_oxford_rcparams" /\ last.err = ""
  /\ rc = rcParamsDefault

----------------------------------------------------------------------------
(* Algebra of the theme calls, checked under Spec *)

\* the step is an apply_oxford_theme call that returns, made right after
\* another one that returned, in a run that started from the library
\* defaults (the configuration reset_theme goes back to)
ThemeAfterTheme ==
  /\ snap = rcParamsDefault
  /\ last.op = "apply_oxford_theme" /\ last.err = ""
  /\ last'.op = "apply_oxford_theme" /\ last'.err = ""
  /\ last'.depth = last.depth + 1

SameArguments ==
  /\ last'.style_base = last.style_base
  /\ last'.color_cycle = last.color_cycle
  /\ last'.font_scale = last.font_scale

\* C27: the rcParams an apply_oxford_theme call leaves depend on its
\* arguments only: made right after a call with the same arguments it
\* changes nothing, and made after any other theme it leaves what it leaves
\* when made after reset_theme.
C27_ThemeDependsOnArgumentsOnly ==
  [][ ThemeAfterTheme =>
        /\ SameArguments => rc' = rc
        /\ rc' = apply_oxford_theme(reset_theme(rc), last'.style_base,
                                    last'.color_cycle, last'.font_scale).v
    ]_vars

\* C28: a get_oxford_rcparams call that raises leaves every rcParams entry
\* as it was when the call started.
C28_FailedPreviewLeavesRcParams ==
  (last.op = "get_oxford_rcparams" /\ last.err # "") => rc = pre

\* C29: every preset of the catalog can be applied: its font_scale is above
\* 0 and its color_cycle is None or a list that is not empty and whose every
\* entry is a registry name or a colour literal; apply_preset with the name
\* of a preset, in any spelling, raises nothing whatever rcParams it starts
\* from and leaves axes.labelcolor at Oxford blue.
C29_EveryPresetApplies ==
  /\ \A k \in DOMAIN PRESETS :
       LET config == dictHeap[PRESETS[k]]
       IN  /\ config.font_scale[1] > 0 /\ config.font_scale[2] > 0
           /\ config.color_cycle # NoneRef =>
                LET cycle == listHeap[config.color_cycle]
                IN  /\ Len(cycle) > 0
                    /\ \A i \in 1..Len(cycle) : ~InvalidEntry(cycle[i])
  /\ (last.op = "apply_preset"
        /\ lower(last.preset_name) \in DOMAIN PRESETS) =>
       /\ last.err = ""
       /\ rc["axes.labelcolor"] = Str(OXFORD_COLORS["oxford_blue"])

\* the colorblind preset applied over a theme with scaled fonts
C29_Witness ==
  /\ last.op = "apply_preset" /\ last.err = ""
  /\ lower(last.preset_name) = "colorblind"
  /\ pre["font.size"] # rcParamsDefault["font.size"]
  /\ pre["axes.labelcolor"] = Str(OXFORD_COLORS["oxford_blue"])
  /\ rc["axes.labelcolor"] = Str(OXFORD_COLORS["oxford_blue"])

----------------------------------------------------------------------------
(* Properties of the journal presets, checked under ProfileSpec *)

\* C30: every journal preset has a width and a height above 0, a dpi that
\* is a positive integer and a format among the supported ones; an
\* oxford_figure call with a preset's figsize raises nothing, and a
\* save_oxford_figure call with the preset's format and dpi raises nothing
\* and reaches savefig with them.
C30_JournalPresetsPassValidation ==
  /\ \A k \in DOMAIN JOURNAL_PRESETS :
       LET preset == journalHeap[JOURNAL_PRESETS[k]]
       IN  /\ preset.figsize[1][1] > 0 /\ preset.figsize[1][2] > 0
           /\ preset.figsize[2][1] > 0 /\ preset.figsize[2][2] > 0
           /\ preset.dpi \in Nat \ {0}
           /\ preset.format \in SupportedFormats
  /\ last.op = "oxford_figure" =>
       /\ last.err = ""
       /\ ret = <<last.figsize>>
  /\ Saving =>
       /\ elast.err = ""
       /\ saved[Len(saved)].format = elast.format
       /\ saved[Len(saved)].dpi = elast.dpi
       /\ Written = elast.filename \o <<".">> \o elast.format

\* the BMJ preset: a figure of its size, saved as eps at 300 dpi
C30_Witness ==
  /\ lower(clast.name) = "bmj"
  /\ last.op = "oxford_figure" /\ last.err = ""
  /\ last.figsize = << <<327, 100>>, <<5, 2>> >>
  /\ Saving /\ elast.err = ""
  /\ elast.format = <<"e","p","s">> /\ elast.dpi = PUBLICATION_DPI
  /\ Written = <<"j","o","u","r","n","a","l",".","e","p","s">>
====
